---- MODULE Spec2Model ----
(***************************************************************************)
(* A model of bambi's model-specification layer: Likelihood and Family     *)
(* validation, Prior.update, the rstanarm-style prior scaler, the          *)
(* construction of a DistributionalComponent, the effects layer            *)
(* (predictions, comparisons, slopes and the data they are computed on)    *)
(* and the build of the PyMC3 backend.                                     *)
(*                                                                         *)
(* Each part of the library is a group of variables with its own           *)
(* specification (SpecLikelihood, SpecFamily, SpecPrior, SpecScaler,       *)
(* SpecComponent, SpecData, SpecEstimate, SpecEffects, SpecBackend); the   *)
(* other groups stay idle in it.                                           *)
(***************************************************************************)
EXTENDS Integers, Sequences, FiniteSets, TLC

VARIABLES
    lik,        \* the Likelihood object (families/likelihood.py)
    likCall,    \* the last call made on it, with the exception it raised
    fam,        \* the Family object (families/family.py)
    famCall,    \* the last call made on it, with the exception it raised
    prior,      \* a Prior object (priors/prior.py)
    priorCall,  \* the last call made on it
    priorHist,  \* history: for each keyword ever passed to it, the last value
    model,      \* the model a PriorScaler2 works on (priors/scaler_rstanarm.py)
    scaler,     \* the PriorScaler2 object
    scaleCall,  \* the scale() calls made: how many, the last one's exception
    comp,       \* a DistributionalComponent (model_components.py)
    compCall,   \* the constructor call that made it, with its exception
    predCall,   \* the call of predict on it, with what it did
    dataCall,   \* a call of create_cap_data or create_differences_data
                \* (plots/create_data.py): arguments, model.data after it, result
    estCall,    \* a call of PredictiveDifferences.get_estimate (plots/effects.py)
    effCall,    \* a call of predictions, comparisons or slopes (plots/effects.py)
    backend,    \* the PyMC3BackEnd object (backends/pymc.py)
    buildCall   \* the build() calls made on it: how many, the last spec built

likVars == <<lik, likCall>>
famVars == <<fam, famCall>>
priorVars == <<prior, priorCall, priorHist>>
scalerVars == <<model, scaler, scaleCall>>
compVars == <<comp, compCall, predCall>>
plotVars == <<dataCall, estCall, effCall>>
backendVars == <<backend, buildCall>>
vars == <<likVars, famVars, priorVars, scalerVars, compVars, plotVars, backendVars>>

\* What the actions of one part leave unchanged.
notLik == <<famVars, priorVars, scalerVars, compVars, plotVars, backendVars>>
notFam == <<likVars, priorVars, scalerVars, compVars, plotVars, backendVars>>
notPrior == <<likVars, famVars, scalerVars, compVars, plotVars, backendVars>>
notScaler == <<likVars, famVars, priorVars, compVars, plotVars, backendVars>>
notComp == <<likVars, famVars, priorVars, scalerVars, plotVars, backendVars>>
notPlot == <<likVars, famVars, priorVars, scalerVars, compVars, backendVars>>
notBackend == <<likVars, famVars, priorVars, scalerVars, compVars, plotVars>>

(***************************************************************************)
(* Python values.  An optional value is None or Some(x); a raised          *)
(* exception is the name of its class, "" when the call returned.          *)
(***************************************************************************)
None == <<>>
Some(x) == <<x>>
Get(o) == o[1]
NoExc == ""
ToSet(s) == {s[i] : i \in DOMAIN s}
\* F(v), with v computed once
Let(v, F(_)) == CHOOSE r \in {F(x) : x \in {v}} : TRUE

(***************************************************************************)
(* Bounds of the model.                                                    *)
(***************************************************************************)
\* longest params sequence given to a Likelihood
MaxParams == 2

(***************************************************************************)
(* families/likelihood.py                                                  *)
(***************************************************************************)
DistSettings(params, parent) == [params |-> params, parent |-> parent]

DISTRIBUTIONS ==
    "Bernoulli" :> DistSettings(<<"p">>, "p") @@
    "Beta" :> DistSettings(<<"mu", "kappa">>, "mu") @@
    "Binomial" :> DistSettings(<<"p">>, "p") @@
    "Categorical" :> DistSettings(<<"p">>, "p") @@
    "Gamma" :> DistSettings(<<"mu", "alpha">>, "mu") @@
    "Multinomial" :> DistSettings(<<"p">>, "p") @@
    "Normal" :> DistSettings(<<"mu", "sigma">>, "mu") @@
    "NegativeBinomial" :> DistSettings(<<"mu", "alpha">>, "mu") @@
    "Laplace" :> DistSettings(<<"mu", "b">>, "mu") @@
    "Poisson" :> DistSettings(<<"mu">>, "mu") @@
    "StudentT" :> DistSettings(<<"mu", "sigma">>, "mu") @@
    "VonMises" :> DistSettings(<<"mu", "kappa">>, "mu") @@
    "Wald" :> DistSettings(<<"mu", "lam">>, "mu")

\* The names and parameter names the calls of the model are made with:
\* three registered distributions and one that is not registered.
LikNames == {"Normal", "Bernoulli", "Categorical", "Magic"}
ParamNames == {"mu", "sigma", "p", "q"}

SeqsUpTo(S, n) == UNION {[1..k -> S] : k \in 0..n}
ParamsArgs == {None} \cup {Some(s) : s \in SeqsUpTo(ParamNames, MaxParams)}
ParentArgs == {None} \cup {Some(p) : p \in ParamNames}

\* An object whose constructor has not returned.
NoLikelihood == [exists |-> FALSE, name |-> "", params |-> None, parent |-> None]

Returned(obj) == [exc |-> NoExc, obj |-> obj]
Raised(exc, obj) == [exc |-> exc, obj |-> obj]

\* Likelihood.params setter with the registry's params compared as a sequence
\* instead of as a set.
Likelihood_set_params_ordered(self, value) ==
    IF self.name \in DOMAIN DISTRIBUTIONS
    THEN IF value = None
         THEN Returned([self EXCEPT !.params = Some(DISTRIBUTIONS[self.name].params)])
         ELSE IF Get(value) # DISTRIBUTIONS[self.name].params
              THEN Raised("ValueError", self)
              ELSE Returned([self EXCEPT !.params = value])
    ELSE Returned([self EXCEPT !.params = value])

\* Likelihood.params setter: value is None or Some(sequence of names).
Likelihood_set_params(self, value) ==
    IF self.name \in DOMAIN DISTRIBUTIONS
    THEN IF value = None
         THEN Returned([self EXCEPT !.params = Some(DISTRIBUTIONS[self.name].params)])
         ELSE IF ToSet(Get(value)) # ToSet(DISTRIBUTIONS[self.name].params)
              THEN Raised("ValueError", self)
              ELSE Returned([self EXCEPT !.params = value])
    ELSE Returned([self EXCEPT !.params = value])

\* Likelihood.parent setter without the membership test for names that are
\* not registered.
Likelihood_set_parent_unvalidated(self, value) ==
    IF self.name \in DOMAIN DISTRIBUTIONS
    THEN IF value = None
         THEN Returned([self EXCEPT !.parent = Some(DISTRIBUTIONS[self.name].parent)])
         ELSE IF Get(value) \notin ToSet(DISTRIBUTIONS[self.name].params)
              THEN Raised("ValueError", self)
              ELSE Returned([self EXCEPT !.parent = value])
    ELSE Returned([self EXCEPT !.parent = value])

\* Likelihood.parent setter: value is None or Some(name).
Likelihood_set_parent(self, value) ==
    IF self.name \in DOMAIN DISTRIBUTIONS
    THEN IF value = None
         THEN Returned([self EXCEPT !.parent = Some(DISTRIBUTIONS[self.name].parent)])
         ELSE IF Get(value) \notin ToSet(DISTRIBUTIONS[self.name].params)
              THEN Raised("ValueError", self)
              ELSE Returned([self EXCEPT !.parent = value])
    ELSE IF self.params = None
         THEN Raised("TypeError", self)   \* "value not in None"
         ELSE IF value = None \/ Get(value) \notin ToSet(Get(self.params))
              THEN Raised("ValueError", self)
              ELSE Returned([self EXCEPT !.parent = value])

\* Likelihood.__init__(name, params, parent): the two setters in order.
Likelihood_init(name, params, parent) ==
    LET self0 == [exists |-> TRUE, name |-> name, params |-> None, parent |-> None]
        r1 == Likelihood_set_params(self0, params)
    IN  IF r1.exc # NoExc
        THEN Raised(r1.exc, NoLikelihood)
        ELSE LET r2 == Likelihood_set_parent(r1.obj, parent)
             IN  IF r2.exc # NoExc THEN Raised(r2.exc, NoLikelihood) ELSE r2

NoLikCall == [op |-> "none", name |-> "", params |-> None, parent |-> None, exc |-> NoExc]

\* lik = Likelihood(name, params, parent)
NewLikelihood ==
    /\ ~lik.exists
    /\ \E name \in LikNames, params \in ParamsArgs, parent \in ParentArgs :
         LET r == Likelihood_init(name, params, parent)
         IN  /\ lik' = r.obj
             /\ likCall' = [op |-> "init", name |-> name, params |-> params,
                            parent |-> parent, exc |-> r.exc]
    /\ UNCHANGED notLik

\* lik.params = value
SetParams ==
    /\ lik.exists
    /\ \E value \in ParamsArgs :
         LET r == Likelihood_set_params(lik, value)
         IN  /\ lik' = r.obj
             /\ likCall' = [op |-> "params", name |-> lik.name, params |-> value,
                            parent |-> None, exc |-> r.exc]
    /\ UNCHANGED notLik

\* lik.parent = value
SetParent ==
    /\ lik.exists
    /\ \E value \in ParentArgs :
         LET r == Likelihood_set_parent(lik, value)
         IN  /\ lik' = r.obj
             /\ likCall' = [op |-> "parent", name |-> lik.name, params |-> None,
                            parent |-> value, exc |-> r.exc]
    /\ UNCHANGED notLik

(***************************************************************************)
(* families/family.py, families/multivariate.py                            *)
(***************************************************************************)
\* most entries of a mapping assigned to Family.link
MaxLinkEntries == 2

\* A Link object made from a link name (families/link.py).
Link(name) == [link |-> name]

\* Values assigned to .link, or held by a mapping assigned to it: a string,
\* a Link instance, or something that is neither (a number).
Str(s) == [t |-> "str", v |-> s]
LinkInstance == [t |-> "Link", v |-> "custom"]
Number == [t |-> "other", v |-> "0"]

Family_SUPPORTED_LINKS ==
    <<"cloglog", "identity", "inverse_squared", "inverse", "log", "logit",
      "probit", "softmax", "tan_2">>
Categorical_SUPPORTED_LINKS == [p |-> <<"softmax">>]
Multinomial_SUPPORTED_LINKS == [p |-> <<"softmax">>]

FamilyClasses == {"Family", "Categorical", "Multinomial"}

\* Whether cls.SUPPORTED_LINKS is a list (Family itself) or a mapping.
SupportedIsList(cls) == cls = "Family"
SupportedMapping(cls) ==
    IF cls = "Categorical" THEN Categorical_SUPPORTED_LINKS ELSE Multinomial_SUPPORTED_LINKS

\* check_string_link that looks every name up in Family's own list, whatever
\* the class's SUPPORTED_LINKS is.
check_string_link_global(cls, link_name, param_name) ==
    IF link_name \notin ToSet(Family_SUPPORTED_LINKS)
    THEN Raised("ValueError", Link(link_name))
    ELSE Returned(Link(link_name))

\* Family.check_string_link(link_name, param_name)
check_string_link(cls, link_name, param_name) ==
    IF ~SupportedIsList(cls) /\ param_name \notin DOMAIN SupportedMapping(cls)
    THEN Raised("KeyError", Link(link_name))      \* self.SUPPORTED_LINKS[param_name]
    ELSE LET supported_links ==
                 IF SupportedIsList(cls) THEN Family_SUPPORTED_LINKS
                 ELSE SupportedMapping(cls)[param_name]
         IN  IF link_name \notin ToSet(supported_links)
             THEN Raised("ValueError", Link(link_name))
             ELSE Returned(Link(link_name))

\* The loop of the link setter over value.items(), from entry i on, with the
\* links gathered so far.  An entry is [key, val]; a raise ends the loop.
RECURSIVE link_items(_, _, _, _)
link_items(cls, items, i, links) ==
    IF i > Len(items)
    THEN Returned(links)
    ELSE LET name == items[i].key
             link == items[i].val
         IN  IF link.t = "str"
             THEN LET r == check_string_link(cls, link.v, name)
                  IN  IF r.exc # NoExc
                      THEN Raised(r.exc, links)
                      ELSE link_items(cls, items, i + 1, (name :> r.obj) @@ links)
             ELSE IF link.t = "Link"
                  THEN link_items(cls, items, i + 1, (name :> Link(link.v)) @@ links)
                  ELSE Raised("ValueError", links)

\* The link setter storing the links gathered so far when an entry raises.
Family_set_link_partial(self, likelihood, call) ==
    IF call.kind = "single" /\ call.single.t \notin {"str", "Link"}
    THEN Raised("AttributeError", self)
    ELSE LET value == IF call.kind = "single"
                      THEN <<[key |-> Get(likelihood.parent), val |-> call.single]>>
                      ELSE call.mapping
             r == link_items(self.cls, value, 1, <<>>)
         IN  IF r.exc # NoExc
             THEN Raised(r.exc, [self EXCEPT !.link = r.obj])
             ELSE Returned([self EXCEPT !.link = r.obj])

\* Family.link setter.  call.kind is "single" (call.single is the value) or
\* "mapping" (call.mapping is the sequence of the dict's items, in order).
Family_set_link(self, likelihood, call) ==
    IF call.kind = "single" /\ call.single.t \notin {"str", "Link"}
    THEN Raised("AttributeError", self)           \* value.items()
    ELSE LET value == IF call.kind = "single"
                      THEN <<[key |-> Get(likelihood.parent), val |-> call.single]>>
                      ELSE call.mapping
             r == link_items(self.cls, value, 1, <<>>)
         IN  IF r.exc # NoExc
             THEN Raised(r.exc, self)
             ELSE Returned([self EXCEPT !.link = r.obj])

NoFamily == [exists |-> FALSE, cls |-> "", link |-> <<>>]

\* Family.__init__(name, likelihood, link)
Family_init(cls, likelihood, call) ==
    LET self0 == [exists |-> TRUE, cls |-> cls, link |-> <<>>]
        r == Family_set_link(self0, likelihood, call)
    IN  IF r.exc # NoExc THEN Raised(r.exc, NoFamily) ELSE r

\* The values the calls of the model assign to .link.
LinkNameArgs == ToSet(Family_SUPPORTED_LINKS) \cup {"Empty"}
SingleArgs == {Str(n) : n \in LinkNameArgs} \cup {LinkInstance, Number}
MappingKeys == {"mu", "p", "q"}
MappingVals == {Str("softmax"), Str("Empty"), Number}
MappingArgs ==
    {m \in SeqsUpTo([key : MappingKeys, val : MappingVals], MaxLinkEntries) :
        \A i, j \in DOMAIN m : i # j => m[i].key # m[j].key}
NoSingle == [t |-> "", v |-> ""]
LinkCalls ==
    {[kind |-> "single", single |-> v, mapping |-> <<>>] : v \in SingleArgs}
    \cup {[kind |-> "mapping", single |-> NoSingle, mapping |-> m] : m \in MappingArgs}

NoFamCall == [op |-> "none", cls |-> "", kind |-> "", single |-> NoSingle,
              mapping |-> <<>>, exc |-> NoExc]
FamCall(op, cls, call, exc) ==
    [op |-> op, cls |-> cls, kind |-> call.kind, single |-> call.single,
     mapping |-> call.mapping, exc |-> exc]

\* fam = cls(name, lik, link)
NewFamily ==
    /\ lik.exists
    /\ ~fam.exists
    /\ \E cls \in FamilyClasses, call \in LinkCalls :
         LET r == Family_init(cls, lik, call)
         IN  /\ fam' = r.obj
             /\ famCall' = FamCall("init", cls, call, r.exc)
    /\ UNCHANGED notFam

\* fam.link = value
SetLink ==
    /\ fam.exists
    /\ \E call \in LinkCalls :
         LET r == Family_set_link(fam, lik, call)
         IN  /\ fam' = r.obj
             /\ famCall' = FamCall("link", fam.cls, call, r.exc)
    /\ UNCHANGED notFam

\* The likelihoods the families of the model are made with.
FamilyLikelihoodCalls ==
    {[op |-> "init", name |-> "Normal", params |-> None, parent |-> None, exc |-> NoExc],
     [op |-> "init", name |-> "Categorical", params |-> None, parent |-> None,
      exc |-> NoExc],
     [op |-> "init", name |-> "Magic", params |-> Some(<<"q", "mu">>),
      parent |-> Some("q"), exc |-> NoExc]}

(***************************************************************************)
(* Numbers.  The scaler's statistics are means and standard deviations of  *)
(* integer data, so every number of the model is sgn * sqrt(n / d), kept   *)
(* exactly: a record [sgn, n, d] with n / d in lowest terms.  d = 0 holds  *)
(* the two floating-point values a division by a zero deviation gives.     *)
(***************************************************************************)
RECURSIVE GCD(_, _)
GCD(a, b) == IF b = 0 THEN a ELSE GCD(b, a % b)

Zero == [sgn |-> 0, n |-> 0, d |-> 1]
Inf == [sgn |-> 1, n |-> 1, d |-> 0]
NaN == [sgn |-> 0, n |-> 0, d |-> 0]
IsFinite(x) == x.d # 0

\* sgn * sqrt(n / d) for n >= 0, d > 0
Norm(sgn, n, d) ==
    IF n = 0 \/ sgn = 0 THEN Zero
    ELSE LET g == GCD(n, d) IN [sgn |-> sgn, n |-> n \div g, d |-> d \div g]
\* the rational p / q, q > 0
Rat(p, q) == Norm(IF p < 0 THEN -1 ELSE IF p = 0 THEN 0 ELSE 1, p * p, q * q)
\* sqrt(p / q), p >= 0, q > 0
Root(p, q) == Norm(1, p, q)
Whole(k) == Rat(k, 1)

\* x * y and x / y as IEEE floating point gives them outside the finite numbers
Mul(x, y) ==
    IF x = NaN \/ y = NaN THEN NaN
    ELSE IF ~IsFinite(x) \/ ~IsFinite(y)
         THEN IF x.sgn * y.sgn = 0 THEN NaN ELSE [Inf EXCEPT !.sgn = x.sgn * y.sgn]
         ELSE Norm(x.sgn * y.sgn, x.n * y.n, x.d * y.d)
Div(x, y) ==
    IF x = NaN \/ y = NaN THEN NaN
    ELSE IF ~IsFinite(y)
         THEN IF ~IsFinite(x) THEN NaN ELSE Zero
         ELSE IF y = Zero
              THEN IF x = Zero THEN NaN ELSE [Inf EXCEPT !.sgn = x.sgn]
              ELSE IF ~IsFinite(x) THEN [Inf EXCEPT !.sgn = x.sgn * y.sgn]
                   ELSE Norm(x.sgn * y.sgn, x.n * y.d, x.d * y.n)

RECURSIVE SumSeq(_)
SumSeq(s) == IF s = <<>> THEN 0 ELSE Head(s) + SumSeq(Tail(s))
\* np.mean and np.std (the population deviation) of a column of integers
np_mean(x) == Rat(SumSeq(x), Len(x))
np_std(x) ==
    LET sq == [i \in DOMAIN x |-> x[i] * x[i]]
    IN  Root(Len(x) * SumSeq(sq) - SumSeq(x) * SumSeq(x), Len(x) * Len(x))

(***************************************************************************)
(* priors/prior.py                                                         *)
(*                                                                         *)
(* The value of a prior's argument is a Python or numpy scalar, a numpy     *)
(* array with its shape, or a nested Prior.                                *)
(***************************************************************************)
Scalar(x) == [t |-> "scalar", shape |-> <<>>, data |-> <<x>>, prior |-> <<>>]
Array(shape, data) == [t |-> "ndarray", shape |-> shape, data |-> data, prior |-> <<>>]
Nested(p) == [t |-> "Prior", shape |-> <<>>, data |-> <<>>, prior |-> p]

\* ndarray.squeeze(): the axes of length one are dropped
squeeze(val) == [val EXCEPT !.shape = SelectSeq(val.shape, LAMBDA n : n # 1)]

NoPrior == [exists |-> FALSE, name |-> "", auto_scale |-> FALSE, args |-> <<>>]

\* Prior.update with self.args replaced by the new arguments instead of
\* updated with them.
Prior_update_replace(self, kwargs) ==
    LET kwargs_ == [key \in DOMAIN kwargs |->
                       IF kwargs[key].t = "ndarray" THEN squeeze(kwargs[key])
                       ELSE kwargs[key]]
    IN  [self EXCEPT !.args = kwargs_]

\* Prior.update(kwargs): kwargs is a function from keywords to values.
Prior_update(self, kwargs) ==
    LET kwargs_ == [key \in DOMAIN kwargs |->
                       IF kwargs[key].t = "ndarray" THEN squeeze(kwargs[key])
                       ELSE kwargs[key]]
    IN  [self EXCEPT !.args = [key \in DOMAIN self.args \cup DOMAIN kwargs_ |->
                                  IF key \in DOMAIN kwargs_ THEN kwargs_[key]
                                  ELSE self.args[key]]]

\* Prior(name, auto_scale, kwargs)
Prior_init(name, auto_scale, kwargs) ==
    Prior_update([exists |-> TRUE, name |-> name, auto_scale |-> auto_scale,
                  args |-> <<>>], kwargs)

\* The keywords and values the calls of the model are made with.
PriorKeys == {"mu", "sigma", "lam"}
PriorValues ==
    {Scalar(Whole(0)),
     Array(<<1, 2>>, <<Whole(0), Whole(1)>>),
     Nested(Prior_init("HalfNormal", TRUE, [sigma |-> Scalar(Whole(1))]))}
KwargsArgs == UNION {[keys -> PriorValues] : keys \in SUBSET PriorKeys}

NoPriorCall == [op |-> "none", kwargs |-> <<>>]

\* prior = Prior(name, auto_scale, kwargs)
NewPrior ==
    /\ ~prior.exists
    /\ \E name \in {"Normal", "CheeseWhiz"}, auto_scale \in BOOLEAN,
          kwargs \in KwargsArgs :
         /\ prior' = Prior_init(name, auto_scale, kwargs)
         /\ priorCall' = [op |-> "init", kwargs |-> kwargs]
         /\ priorHist' = kwargs
    /\ UNCHANGED notPrior

\* prior.update(kwargs)
UpdatePrior ==
    /\ prior.exists
    /\ \E kwargs \in KwargsArgs :
         /\ prior' = Prior_update(prior, kwargs)
         /\ priorCall' = [op |-> "update", kwargs |-> kwargs]
         /\ priorHist' = kwargs @@ priorHist
    /\ UNCHANGED notPrior

(***************************************************************************)
(* priors/scaler_rstanarm.py                                               *)
(*                                                                         *)
(* The model a PriorScaler2 is given: its family, its response (data and   *)
(* prior) and its common and group-specific terms, in the order of the     *)
(* model's dictionaries.  A term's data (predictor, for a group-specific   *)
(* term) is the sequence of the columns of its design matrix.              *)
(***************************************************************************)
\* observations in the data of a scaled model
NObs == 2
\* scale() calls made on one model
MaxScales == 2

\* PriorScaler2.STD = 2.5
STD == Rat(5, 2)

\* model.terms: the common and the group-specific terms (models.py)
model_terms(m) == ToSet(m.common_terms) \cup ToSet(m.group_specific_terms)

\* PriorScaler2.__init__(model)
PriorScaler2_init(m) ==
    [exists |-> TRUE,
     has_intercept |-> \E term \in model_terms(m) : term.type = "intercept",
     priors |-> <<>>,
     response_mean |-> IF m.family.name = "gaussian" THEN np_mean(m.response.data)
                       ELSE Whole(0),
     response_std |-> IF m.family.name = "gaussian" THEN np_std(m.response.data)
                      ELSE Whole(1)]

\* get_intercept_stats() without the multiplier STD
get_intercept_stats_unscaled(self) ==
    [mu |-> self.response_mean, sigma |-> self.response_std]

\* PriorScaler2.get_intercept_stats()
get_intercept_stats(self) ==
    [mu |-> self.response_mean, sigma |-> Mul(STD, self.response_std)]

\* PriorScaler2.get_slope_sigma(x)
get_slope_sigma(self, x) == Mul(STD, Div(self.response_std, np_std(x)))

\* PriorScaler2.scale_response(): the model after it
scale_response(self, m) ==
    IF m.response.prior.auto_scale /\ m.family.name = "gaussian"
    THEN LET lam == Div(Whole(1), self.response_std)
             sigma == Nested(Prior_init("Exponential", TRUE, [lam |-> Scalar(lam)]))
         IN  [m EXCEPT !.response.prior = Prior_update(@, [sigma |-> sigma])]
    ELSE m

\* scale_intercept that multiplies the prior's present sigma by the scale
\* instead of setting it.
scale_intercept_relative(self, term) ==
    IF term.prior.name # "Normal"
    THEN term
    ELSE LET stats == get_intercept_stats(self)
             old == term.prior.args["sigma"].data[1]
         IN  [term EXCEPT !.prior = Prior_update(@,
                 [mu |-> Scalar(stats.mu), sigma |-> Scalar(Mul(old, stats.sigma))])]

\* PriorScaler2.scale_intercept(term): the term after it
scale_intercept(self, term) ==
    IF term.prior.name # "Normal"
    THEN term
    ELSE LET stats == get_intercept_stats(self)
         IN  [term EXCEPT !.prior = Prior_update(@,
                 [mu |-> Scalar(stats.mu), sigma |-> Scalar(stats.sigma)])]

\* PriorScaler2.scale_common(term): the term after it, and what is saved in
\* self.priors under its name (nothing when the prior is not Normal)
scale_common(self, term) ==
    IF term.prior.name # "Normal"
    THEN [term |-> term, saved |-> <<>>]
    ELSE LET k == Len(term.data)
             mu == Array(<<k>>, [i \in 1..k |-> Zero])
             sigma == Array(<<k>>, [i \in 1..k |-> get_slope_sigma(self, term.data[i])])
         IN  [term |-> [term EXCEPT !.prior = Prior_update(@, [mu |-> mu, sigma |-> sigma])],
              saved |-> (term.name :> [mu |-> mu, sigma |-> sigma])]

\* PriorScaler2.scale_group_specific(term): the term after it, or the
\* exception of reading the name of the prior's sigma argument
scale_group_specific(self, term) ==
    IF "sigma" \notin DOMAIN term.prior.args
    THEN Raised("KeyError", term)
    ELSE IF term.prior.args["sigma"].t # "Prior"
         THEN Raised("AttributeError", term)
         ELSE IF term.prior.args["sigma"].prior.name # "HalfNormal"
              THEN Returned(term)
              ELSE LET data_as_common == term.predictor
                       k == Len(data_as_common)
                       \* np.squeeze(np.atleast_1d(sigma))
                       sigma ==
                           IF term.type = "intercept"
                           THEN squeeze(Array(<<1>>, <<get_intercept_stats(self).sigma>>))
                           ELSE squeeze(Array(<<k>>,
                                    [i \in 1..k |-> get_slope_sigma(self, data_as_common[i])]))
                   IN  Returned([term EXCEPT !.prior.args["sigma"].prior =
                                    Prior_update(@, [sigma |-> sigma])])

\* The state scale() works on: the model, self.priors, the exception raised.
ScaleState(m, priors, exc) == [model |-> m, priors |-> priors, exc |-> exc]

\* scale(), "Scale intercept"
scale_intercept_term(self, st) ==
    IF ~self.has_intercept
    THEN st
    ELSE LET found == {i \in DOMAIN st.model.common_terms :
                          st.model.common_terms[i].type = "intercept"}
         IN  IF found = {}
             THEN [st EXCEPT !.exc = "IndexError"]      \* [...][0] of an empty list
             ELSE LET i == CHOOSE i \in found : \A j \in found : i <= j
                      term == st.model.common_terms[i]
                  IN  IF term.prior.auto_scale
                      THEN [st EXCEPT !.model.common_terms[i] = scale_intercept(self, term)]
                      ELSE st

\* The body of the loop over the common terms with the test of auto_scale
\* left out.
scale_common_term_always(self, st, i) ==
    LET term == st.model.common_terms[i]
    IN  IF term.type = "intercept"
        THEN st
        ELSE LET r == scale_common(self, term)
             IN  [st EXCEPT !.model.common_terms[i] = r.term,
                            !.priors = r.saved @@ @]

\* scale(), "Scale common terms": the body of the loop, for the i-th term
scale_common_term(self, st, i) ==
    LET term == st.model.common_terms[i]
    IN  IF term.type = "intercept"
        THEN st
        ELSE IF term.prior.auto_scale
             THEN LET r == scale_common(self, term)
                  IN  [st EXCEPT !.model.common_terms[i] = r.term,
                                 !.priors = r.saved @@ @]
             ELSE st

RECURSIVE scale_common_terms(_, _, _)
scale_common_terms(self, st, i) ==
    IF i > Len(st.model.common_terms)
    THEN st
    ELSE scale_common_terms(self, scale_common_term(self, st, i), i + 1)

\* scale(), "Scale group-specific terms", from the i-th term on
RECURSIVE scale_group_specific_terms(_, _, _)
scale_group_specific_terms(self, st, i) ==
    IF i > Len(st.model.group_specific_terms)
    THEN st
    ELSE LET term == st.model.group_specific_terms[i]
         IN  IF term.prior.auto_scale
             THEN LET r == scale_group_specific(self, term)
                  IN  IF r.exc # NoExc
                      THEN [st EXCEPT !.exc = r.exc]
                      ELSE scale_group_specific_terms(self,
                               [st EXCEPT !.model.group_specific_terms[i] = r.obj], i + 1)
             ELSE scale_group_specific_terms(self, st, i + 1)

\* PriorScaler2.scale()
scale(self, m) ==
    LET st1 == ScaleState(scale_response(self, m), self.priors, NoExc)
        st2 == scale_intercept_term(self, st1)
    IN  IF st2.exc # NoExc
        THEN st2
        ELSE scale_group_specific_terms(self, scale_common_terms(self, st2, 1), 1)

\* The data: columns of NObs values.  np.mean and np.std do not depend on
\* the order of the rows, so the columns are taken sorted.
DataValues == {0, 1, 2}
Columns == {c \in [1..NObs -> DataValues] : \A i \in 1..(NObs - 1) : c[i] <= c[i + 1]}
Ones == [i \in 1..NObs |-> 1]
\* the column of the design matrix of a categorical x for one of its levels
Indicator(x, level) == [i \in 1..NObs |-> IF x[i] = level THEN 1 ELSE 0]

CommonTerm(name, type, data, p) == [name |-> name, type |-> type, data |-> data, prior |-> p]
GroupSpecificTerm(name, type, predictor, p) ==
    [name |-> name, type |-> type, predictor |-> predictor, prior |-> p]

\* The priors the terms of the model come with.
NormalPrior(auto_scale) ==
    Prior_init("Normal", auto_scale, [mu |-> Scalar(Whole(0)), sigma |-> Scalar(Whole(1))])
CauchyPrior ==
    Prior_init("Cauchy", TRUE, [alpha |-> Scalar(Whole(0)), beta |-> Scalar(Whole(1))])
HyperPrior(name) == Prior_init(name, TRUE, [sigma |-> Scalar(Whole(1))])
GroupPrior(auto_scale, hyper) ==
    Prior_init("Normal", auto_scale,
               [mu |-> Scalar(Whole(0)), sigma |-> Nested(HyperPrior(hyper))])
NoSigmaPrior == Prior_init("Normal", TRUE, [mu |-> Scalar(Whole(0))])
ResponsePrior(family, auto_scale) ==
    IF family = "gaussian"
    THEN Prior_init("Normal", auto_scale, [sigma |-> Nested(HyperPrior("HalfStudentT"))])
    ELSE Prior_init("Bernoulli", auto_scale, <<>>)

CommonPriors == {NormalPrior(TRUE), NormalPrior(FALSE), CauchyPrior}
GroupPriors ==
    {GroupPrior(TRUE, "HalfNormal"), GroupPrior(FALSE, "HalfNormal"),
     GroupPrior(TRUE, "HalfCauchy"), NormalPrior(TRUE), NoSigmaPrior}

\* The models: y ~ [1 +] x [+ (1|g)] [+ (x|g)], with x numeric (one column)
\* or categorical (one column for each level, as without an intercept).
InterceptTerms ==
    {<<>>} \cup {<<CommonTerm("Intercept", "intercept", <<Ones>>, p)>> : p \in CommonPriors}
SlopeTerms(x) ==
    {<<CommonTerm("x", "numeric", <<x>>, p)>> : p \in CommonPriors}
    \cup {<<CommonTerm("x", "categoric", <<Indicator(x, 0), Indicator(x, 1), Indicator(x, 2)>>,
                       NormalPrior(TRUE))>>}
\* The group-specific terms of the model: none, (1|g), (x|g), or both.
GroupTerms(x) ==
    {<<>>}
    \cup {<<GroupSpecificTerm("1|g", "intercept", <<Ones>>, p)>> : p \in GroupPriors}
    \cup {<<GroupSpecificTerm("x|g", "slope", <<x>>, GroupPrior(a, "HalfNormal"))>> :
             a \in BOOLEAN}
    \cup {<<GroupSpecificTerm("1|g", "intercept", <<Ones>>, GroupPrior(TRUE, "HalfNormal")),
            GroupSpecificTerm("x|g", "slope", <<x>>, p)>> :
             p \in {GroupPrior(TRUE, "HalfNormal"), NoSigmaPrior}}

ScalerModel(family, auto_scale, y, i, c, g) ==
    [family |-> [name |-> family],
     response |-> [data |-> y, prior |-> ResponsePrior(family, auto_scale)],
     common_terms |-> i \o c,
     group_specific_terms |-> g]
ScalerFamilies == {"gaussian", "bernoulli"}

NoModel == [family |-> [name |-> ""], response |-> [data |-> <<>>, prior |-> NoPrior],
            common_terms |-> <<>>, group_specific_terms |-> <<>>]
NoScaler == [exists |-> FALSE, has_intercept |-> FALSE, priors |-> <<>>,
             response_mean |-> Zero, response_std |-> Zero]
NoScaleCall == [runs |-> 0, exc |-> NoExc]

\* scaler = PriorScaler2(model)
NewScaler ==
    /\ ~scaler.exists
    /\ scaler' = PriorScaler2_init(model)
    /\ UNCHANGED <<model, scaleCall>>
    /\ UNCHANGED notScaler

\* scaler.scale()
Scale ==
    /\ scaler.exists
    /\ scaleCall.runs < MaxScales
    /\ LET st == scale(scaler, model)
       IN  /\ model' = st.model
           /\ scaler' = [scaler EXCEPT !.priors = st.priors]
           /\ scaleCall' = [runs |-> scaleCall.runs + 1, exc |-> st.exc]
    /\ UNCHANGED notScaler

(***************************************************************************)
(* model_components.py: DistributionalComponent                            *)
(*                                                                         *)
(* self.terms is a dictionary filled in the order of the design's terms;   *)
(* the names of the terms of a design are distinct, so it is modelled as   *)
(* the sequence of the terms made.                                         *)
(***************************************************************************)
\* terms of the common part of a design
MaxTerms == 2
\* rows of the design matrix of the response
MaxRows == 2

\* isinstance(prior, Prior)
IsPrior(v) == "name" \in DOMAIN v

\* any(isinstance(x, Prior) for x in prior.args.values())
any_hyperprior(p) == \E k \in DOMAIN p.args : p.args[k].t = "Prior"

\* dict.get(key, default)
dict_get(d, key, default) == IF key \in DOMAIN d THEN d[key] ELSE default

\* dict.pop(key, default): the value popped and the dictionary left
dict_pop(d, key, default) ==
    IF key \in DOMAIN d
    THEN [value |-> d[key], dict |-> [k \in DOMAIN d \ {key} |-> d[k]]]
    ELSE [value |-> default, dict |-> d]

\* OffsetTerm(term, term.data, prefix), ResponseTerm(response, family): the
\* term objects made (bambi/terms)
OffsetTerm(term) ==
    [name |-> term.name, type |-> "offset", data |-> term.data, prior |-> None]
ResponseTerm(response, family) ==
    [name |-> response.name, kind |-> response.kind, levels |-> response.levels,
     data |-> response.design_matrix, family |-> family]

\* The state the methods of a component work on: the component, the priors
\* dictionary of the caller, the exception raised and the method raising it.
NoComp == [exists |-> FALSE, terms |-> <<>>, response_term |-> None]
CompState(self, priors, exc, at) ==
    [self |-> self, priors |-> priors, exc |-> exc, at |-> at]

\* The body of the loop of add_common_terms with priors.pop(name, None): the
\* prior under the key "common" is not looked up.
add_common_term_own_name(st, term) ==
    LET popped == dict_pop(st.priors, term.name, None)
        value == popped.value
    IN  IF IsPrior(value) /\ any_hyperprior(value)
        THEN [st EXCEPT !.priors = popped.dict, !.exc = "ValueError",
                        !.at = "add_common_terms"]
        ELSE [st EXCEPT !.priors = popped.dict,
                        !.self.terms = Append(@,
                            IF term.kind = "offset"
                            THEN OffsetTerm(term)
                            ELSE CommonTerm(term.name, term.kind, term.data, value))]

\* DistributionalComponent.add_common_terms: the body of the loop
add_common_term(st, term) ==
    LET popped == dict_pop(st.priors, term.name, dict_get(st.priors, "common", None))
        value == popped.value
    IN  IF IsPrior(value) /\ any_hyperprior(value)
        THEN [st EXCEPT !.priors = popped.dict, !.exc = "ValueError",
                        !.at = "add_common_terms"]
        ELSE [st EXCEPT !.priors = popped.dict,
                        !.self.terms = Append(@,
                            IF term.kind = "offset"
                            THEN OffsetTerm(term)
                            ELSE CommonTerm(term.name, term.kind, term.data, value))]

\* DistributionalComponent.add_common_terms, from the i-th term of the design
RECURSIVE add_common_terms(_, _, _)
add_common_terms(st, terms, i) ==
    IF i > Len(terms) \/ st.exc # NoExc
    THEN st
    ELSE add_common_terms(add_common_term(st, terms[i]), terms, i + 1)

\* DistributionalComponent.add_group_specific_terms, from the i-th term
RECURSIVE add_group_specific_terms(_, _, _)
add_group_specific_terms(st, terms, i) ==
    IF i > Len(terms)
    THEN st
    ELSE LET term == terms[i]
             popped == dict_pop(st.priors, term.name,
                                dict_get(st.priors, "group_specific", None))
             made == GroupSpecificTerm(term.name, term.kind, term.data, popped.value)
         IN  add_group_specific_terms(
                 [st EXCEPT !.priors = popped.dict, !.self.terms = Append(@, made)],
                 terms, i + 1)

\* response.term.term.components[0].reference, None without the attribute
response_reference(response) ==
    IF response.has_reference THEN response.reference ELSE None

\* all(np.isin(design_matrix, [0, 1]))
all_isin01(design_matrix) == \A i \in DOMAIN design_matrix : design_matrix[i] \in {0, 1}

\* add_response_term with any() in the place of all() in the test of a
\* numeric response.
add_response_term_any(st, response, family) ==
    LET reference == response_reference(response)
        raise == [st EXCEPT !.exc = "ValueError", !.at = "add_response_term"]
    IN  IF reference # None /\ family # "Bernoulli"
        THEN raise
        ELSE IF /\ family = "Bernoulli"
                /\ \/ /\ response.kind = "categoric"
                      /\ response.levels = None
                      /\ reference = None
                   \/ /\ response.kind = "numeric"
                      /\ ~(\E i \in DOMAIN response.design_matrix :
                              response.design_matrix[i] \in {0, 1})
             THEN raise
             ELSE [st EXCEPT !.self.response_term = Some(ResponseTerm(response, family))]

\* DistributionalComponent.add_response_term
add_response_term(st, response, family) ==
    LET reference == response_reference(response)
        raise == [st EXCEPT !.exc = "ValueError", !.at = "add_response_term"]
    IN  IF reference # None /\ family # "Bernoulli"
        THEN raise
        ELSE IF /\ family = "Bernoulli"
                /\ \/ /\ response.kind = "categoric"
                      /\ response.levels = None
                      /\ reference = None
                   \/ /\ response.kind = "numeric"
                      /\ ~all_isin01(response.design_matrix)
             THEN raise
             ELSE [st EXCEPT !.self.response_term = Some(ResponseTerm(response, family))]

\* DistributionalComponent.__init__(design, priors, ..., spec), spec.family
\* an instance of the class family
DistributionalComponent_init(design, priors, family) ==
    LET st0 == CompState([exists |-> TRUE, terms |-> <<>>, response_term |-> None],
                         priors, NoExc, "")
        st1 == IF design.common # None
               THEN add_common_terms(st0, design.common.terms, 1)
               ELSE st0
        st2 == IF design.group # None
               THEN add_group_specific_terms(st1, design.group.terms, 1)
               ELSE st1
    IN  IF st1.exc # NoExc
        THEN st1
        ELSE IF design.response # None
             THEN add_response_term(st2, design.response, family)
             ELSE st2

\* The designs, priors and families a component is made of.
DesignTerm(name, kind) == [name |-> name, kind |-> kind, data |-> <<Ones>>]
CommonDesignTerms ==
    {DesignTerm("Intercept", "intercept"), DesignTerm("x", "numeric"),
     DesignTerm("o", "offset")}
CommonDesigns ==
    {None} \cup
    {[terms |-> s] : s \in {s \in SeqsUpTo(CommonDesignTerms, MaxTerms) :
        Len(s) >= 1 /\ \A i, j \in DOMAIN s : i # j => s[i] # s[j]}}
GroupDesigns == {None, [terms |-> <<DesignTerm("1|g", "intercept")>>]}
Response(kind, levels, design_matrix, has_reference, reference) ==
    [name |-> "y", kind |-> kind, levels |-> levels, design_matrix |-> design_matrix,
     has_reference |-> has_reference, reference |-> reference]
References == {<<FALSE, None>>, <<TRUE, None>>, <<TRUE, Some("a")>>}
ResponseDesigns ==
    {None}
    \cup {Response("numeric", None, m, r[1], r[2]) :
             m \in [1..MaxRows -> {0, 1, 2}], r \in References}
    \cup {Response("categoric", l, <<1, 0>>, r[1], r[2]) :
             l \in {None, Some(<<"a", "b">>)}, r \in References}
    \cup {Response("proportion", None, <<1, 0>>, r[1], r[2]) : r \in References}
Designs ==
    {[common |-> c, group |-> g, response |-> r] :
        c \in CommonDesigns, g \in GroupDesigns, r \in ResponseDesigns}
PriorsKeys == {"x", "o", "common", "group_specific"}
PriorsValues == {NormalPrior(FALSE), GroupPrior(FALSE, "HalfNormal"), Scalar(Whole(1))}
PriorsArgs ==
    {d \in UNION {[K -> PriorsValues] : K \in SUBSET PriorsKeys} :
        \A k \in DOMAIN d \cap {"o", "group_specific"} : d[k] = GroupPrior(FALSE, "HalfNormal")}
ComponentFamilies == {"Bernoulli", "Gaussian"}

NoCompCall == [op |-> "none", design |-> None, priors |-> <<>>, family |-> "",
               exc |-> NoExc, at |-> ""]

\* comp = DistributionalComponent(design, priors, ..., spec)
NewComponent ==
    /\ ~comp.exists
    /\ \E design \in Designs, priors \in PriorsArgs, family \in ComponentFamilies :
         LET st == DistributionalComponent_init(design, priors, family)
         IN  /\ comp' = st.self
             /\ compCall' = [op |-> "init", design |-> design, priors |-> priors,
                             family |-> family, exc |-> st.exc, at |-> st.at]
    /\ UNCHANGED predCall
    /\ UNCHANGED notComp

(***************************************************************************)
(* model_components.py: DistributionalComponent.predict                    *)
(*                                                                         *)
(* A matrix is the sequence of its columns, a column has one number for    *)
(* each observation.  The posterior has one draw: for each term the        *)
(* coefficient of each of its columns.                                     *)
(***************************************************************************)
\* terms of the common design of a component that predicts
MaxPredictTerms == 3

Min(a, b) == IF a < b THEN a ELSE b
\* X[:, slice(start, stop)], np.delete(X, slice(start, stop), axis=1): a
\* slice takes the columns there are from start to stop
ColumnsAt(X, s) == SubSeq(X, s[1] + 1, Min(s[2], Len(X)))
np_delete(X, s) ==
    IF s[1] >= Len(X) THEN X
    ELSE SubSeq(X, 1, s[1]) \o SubSeq(X, Min(s[2], Len(X)) + 1, Len(X))

IsGroupSpecificTerm(t) == "predictor" \in DOMAIN t
IsOffsetTerm(t) == ~IsGroupSpecificTerm(t) /\ t.type = "offset"
IsCommonTerm(t) == ~IsGroupSpecificTerm(t) /\ t.type # "offset"
TermNames(terms) == [i \in DOMAIN terms |-> terms[i].name]
\* the properties intercept_term, common_terms, group_specific_terms and
\* offset_terms of a component: the names, in the order of self.terms
intercept_term(self) ==
    TermNames(SelectSeq(self.terms, LAMBDA t : IsCommonTerm(t) /\ t.type = "intercept"))
common_terms(self) ==
    TermNames(SelectSeq(self.terms, LAMBDA t : IsCommonTerm(t) /\ t.type # "intercept"))
group_specific_terms(self) == TermNames(SelectSeq(self.terms, IsGroupSpecificTerm))
offset_terms(self) == TermNames(SelectSeq(self.terms, IsOffsetTerm))

\* the loop of predict over self.offset_terms, from the i-th on: the matrix
\* left and the columns taken out of it
RECURSIVE take_offsets(_, _, _, _, _)
take_offsets(X, x_offsets, slices, names, i) ==
    IF i > Len(names) THEN [X |-> X, x_offsets |-> x_offsets]
    ELSE take_offsets(np_delete(X, slices[names[i]]),
                      x_offsets \o ColumnsAt(X, slices[names[i]]),
                      slices, names, i + 1)

\* posterior[names].to_stacked_array("__variables__", ...): the coefficients
\* of the terms, one after the other
RECURSIVE to_stacked_array(_, _)
to_stacked_array(posterior, names) ==
    IF names = <<>> THEN <<>>
    ELSE posterior[Head(names)] \o to_stacked_array(posterior, Tail(names))

RECURSIVE SumInts(_)
SumInts(s) == IF s = <<>> THEN 0 ELSE Head(s) + SumInts(Tail(s))
\* xr.dot(X, b) over "__variables__", for one observation
DotRow(X, b, obs) == SumInts([j \in DOMAIN X |-> X[j][obs] * b[j]])
\* np.column_stack(x_offsets).sum(axis=1), for one observation
OffsetSum(x_offsets, obs) == SumInts([j \in DOMAIN x_offsets |-> x_offsets[j][obs]])

\* The linear predictor: the number 0 it starts as, or an array with a value
\* for each observation
ScalarPredictor == [array |-> FALSE, v |-> <<>>]
ArrayPredictor(v) == [array |-> TRUE, v |-> v]
\* linear_predictor += xr.dot(X, b)
AddDot(linear_predictor, X, b) ==
    ArrayPredictor([obs \in 1..NObs |->
        (IF linear_predictor.array THEN linear_predictor.v[obs] ELSE 0) + DotRow(X, b, obs)])

\* what predict did: the exception, the columns of X that met the
\* coefficients, the offsets added, the linear predictor and the response
Predicted(exc, X, b, x_offsets, linear_predictor, response) ==
    [exc |-> exc, X |-> X, b |-> b, x_offsets |-> x_offsets,
     linear_predictor |-> linear_predictor, response |-> response]

\* linkinv applied to the value of one observation
Linkinv(link, value) == <<link, value>>

\* DistributionalComponent.predict(idata, data, include_group_specific) of
\* a component of a family without transform_linear_predictor, UFUNC_KWARGS
\* and transform_coords
predict(self, design, family, response_kind, response_name, posterior, in_sample, include_group_specific) ==
    Let(IF design.common # None
        THEN take_offsets(IF in_sample THEN design.common.design_matrix
                          ELSE design.common.new_design_matrix,
                          <<>>, design.common.slices, offset_terms(self), 1)
        ELSE [X |-> <<>>, x_offsets |-> <<>>],
        LAMBDA taken :
    Let(IF design.common # None
        THEN to_stacked_array(posterior, intercept_term(self) \o common_terms(self))
        ELSE <<>>,
        LAMBDA b :
    IF design.common # None /\ Len(taken.X) # Len(b)
    THEN Predicted("ValueError", taken.X, b, taken.x_offsets, ScalarPredictor, <<>>)
    ELSE
    Let(IF design.common # None THEN AddDot(ScalarPredictor, taken.X, b) ELSE ScalarPredictor,
        LAMBDA common :
    Let(IF design.group # None /\ include_group_specific
        THEN AddDot(common,
                    IF in_sample THEN design.group.design_matrix
                    ELSE design.group.new_design_matrix,
                    to_stacked_array(posterior, group_specific_terms(self)))
        ELSE common,
        LAMBDA grouped :
    Let(IF taken.x_offsets # <<>>
        THEN ArrayPredictor([obs \in 1..NObs |->
                 grouped.v[obs] + OffsetSum(taken.x_offsets, obs)])
        ELSE grouped,
        LAMBDA linear_predictor :
    IF ~linear_predictor.array
    THEN Predicted("AttributeError", taken.X, b, taken.x_offsets, linear_predictor, <<>>)
    ELSE
    Let(IF response_kind = "data" THEN family.parent ELSE response_name, LAMBDA key :
    IF key \notin DOMAIN family.link
    THEN Predicted("KeyError", taken.X, b, taken.x_offsets, linear_predictor, <<>>)
    ELSE Predicted(NoExc, taken.X, b, taken.x_offsets, linear_predictor,
                   [obs \in 1..NObs |->
                       Linkinv(family.link[key], linear_predictor.v[obs])])))))))

\* The components that predict: the common design has an intercept or not,
\* then up to MaxPredictTerms of a numeric x, a categorical z of two columns
\* and the offsets o1 and o2, in any order; the group design is (1|g).
PredictTermNames == {"x", "z", "o1", "o2"}
PredictOffsets == {"o1", "o2"}
PredictData(name, x) ==
    IF name = "Intercept" THEN <<Ones>>
    ELSE IF name = "x" THEN <<x>>
    ELSE IF name = "z" THEN <<[i \in 1..NObs |-> i % 2], [i \in 1..NObs |-> (i + 1) % 2]>>
    ELSE IF name = "o1" THEN <<[i \in 1..NObs |-> 10 * i]>>
    ELSE <<[i \in 1..NObs |-> 100 * i]>>
PredictKind(name) ==
    IF name = "Intercept" THEN "intercept"
    ELSE IF name \in PredictOffsets THEN "offset"
    ELSE IF name = "z" THEN "categoric"
    ELSE "numeric"
RECURSIVE HStack(_, _)
HStack(names, x) ==
    IF names = <<>> THEN <<>> ELSE PredictData(Head(names), x) \o HStack(Tail(names), x)
\* design.common.slices: the columns of each term in the design matrix
SliceOf(names, i, x) ==
    <<Len(HStack(SubSeq(names, 1, i - 1), x)), Len(HStack(SubSeq(names, 1, i), x))>>
PredictCommon(names, x, new_x) ==
    [terms |-> [i \in DOMAIN names |->
                   [name |-> names[i], kind |-> PredictKind(names[i]),
                    data |-> PredictData(names[i], x)]],
     slices |-> [n \in ToSet(names) |->
                   SliceOf(names, CHOOSE i \in DOMAIN names : names[i] = n, x)],
     design_matrix |-> HStack(names, x),
     new_design_matrix |-> HStack(names, new_x)]
PredictGroup ==
    [terms |-> <<[name |-> "1|g", kind |-> "intercept", data |-> <<Ones>>]>>,
     design_matrix |-> <<[i \in 1..NObs |-> i % 2], [i \in 1..NObs |-> (i + 1) % 2]>>,
     new_design_matrix |-> <<[i \in 1..NObs |-> (i + 1) % 2], [i \in 1..NObs |-> i % 2]>>]
PredictTermOrders ==
    {s \in SeqsUpTo(PredictTermNames, MaxPredictTerms) :
        /\ \A i, j \in DOMAIN s : i # j => s[i] # s[j]
        /\ \E i \in DOMAIN s : s[i] \notin PredictOffsets}
PredictPosterior ==
    [n \in {"Intercept", "x", "z", "1|g"} |->
        IF n = "Intercept" THEN <<1>>
        ELSE IF n = "x" THEN <<2>>
        ELSE IF n = "z" THEN <<3, 4>>
        ELSE <<5, 7>>]
PredictFamily == [parent |-> "mu", link |-> [k \in {"mu", "sigma"} |->
                                                IF k = "mu" THEN "identity" ELSE "log"]]
NoPriors == [k \in {} |-> None]

NoPredCall == [op |-> "none", in_sample |-> FALSE, include_group_specific |-> FALSE,
               response_kind |-> "", result |-> <<>>]

\* comp = DistributionalComponent(design, {}, name, kind, spec), of a model
\* whose designs formulae made: the intercept is the first common term
NewPredictComponent ==
    /\ ~comp.exists
    /\ \E intercept \in BOOLEAN, names \in PredictTermOrders \cup {<<>>}, x \in Columns,
          new_x \in Columns, group \in {None, PredictGroup} :
         /\ names = <<>> => ~intercept /\ x = Ones /\ new_x = Ones
         /\ \E design \in {[common |-> IF names = <<>> THEN None
                                       ELSE PredictCommon((IF intercept THEN <<"Intercept">>
                                                           ELSE <<>>) \o names, x, new_x),
                            group |-> group, response |-> None]} :
              \E st \in {DistributionalComponent_init(design, NoPriors, "Gaussian")} :
                 /\ comp' = st.self
                 /\ compCall' = [op |-> "init", design |-> design, priors |-> NoPriors,
                                 family |-> "Gaussian", exc |-> st.exc, at |-> st.at]
    /\ UNCHANGED predCall
    /\ UNCHANGED notComp

\* comp.predict(idata, data, include_group_specific)
Predict ==
    /\ comp.exists
    /\ compCall.exc = NoExc
    /\ predCall.op = "none"
    /\ \E in_sample \in BOOLEAN, include_group_specific \in BOOLEAN,
          response_kind \in {"data", "parameter"} :
         \E r \in {predict(comp, compCall.design, PredictFamily, response_kind, "sigma",
                           PredictPosterior, in_sample, include_group_specific)} :
            predCall' = [op |-> "predict", in_sample |-> in_sample,
                         include_group_specific |-> include_group_specific,
                         response_kind |-> response_kind, result |-> r]
    /\ UNCHANGED <<comp, compCall>>
    /\ UNCHANGED notComp

(***************************************************************************)
(* plots/utils.py                                                          *)
(*                                                                         *)
(* A value of a data frame is a number n / d (d > 0, in lowest terms) or a *)
(* string s.  A column is a sequence of values; a data frame is the        *)
(* sequence of the names of its columns with the column of each name.      *)
(* Strings are ordered as in Levels.                                       *)
(***************************************************************************)
\* rows of the data of a model the effects are computed for
MaxObs == 2
Draws == 2
MaxBuilds == 3
\* make_main_values(x, grid_n=50): the points of the grid, fewer here
grid_n == 3
\* make_group_panel_values(..., groups_n=5)
groups_n == 5

Abs(k) == IF k < 0 THEN -k ELSE k
NumV(n, d) == LET g == GCD(Abs(n), d) IN [s |-> "", n |-> n \div g, d |-> d \div g]
StrV(s) == [s |-> s, n |-> 0, d |-> 0]
IsNum(v) == v.d # 0
Add(a, b) == NumV(a.n * b.d + b.n * a.d, a.d * b.d)
Sub(a, b) == NumV(a.n * b.d - b.n * a.d, a.d * b.d)
Times(a, b) == NumV(a.n * b.n, a.d * b.d)
Levels == <<"a", "b", "c">>
LevelRank(s) == CHOOSE i \in DOMAIN Levels : Levels[i] = s
\* a <= b, for two numbers or two strings
Leq(a, b) ==
    IF IsNum(a) THEN a.n * b.d <= b.n * a.d ELSE LevelRank(a.s) <= LevelRank(b.s)

\* Series.astype(dtype) of one value: int64 drops the fraction of a number
astype(v, dtype) ==
    IF dtype = "int64" /\ IsNum(v)
    THEN NumV(IF v.n >= 0 THEN v.n \div v.d ELSE -((-v.n) \div v.d), 1)
    ELSE v

\* sorted(x)
RECURSIVE Insert(_, _)
Insert(v, sorted) ==
    IF sorted = <<>> THEN <<v>>
    ELSE IF Leq(v, Head(sorted)) THEN <<v>> \o sorted
    ELSE <<Head(sorted)>> \o Insert(v, Tail(sorted))
RECURSIVE Sorted(_)
Sorted(x) == IF x = <<>> THEN <<>> ELSE Insert(Head(x), Sorted(Tail(x)))

\* np.unique(x): the distinct values of x, sorted
RECURSIVE Dedup(_)
Dedup(x) ==
    IF Len(x) <= 1 THEN x
    ELSE IF x[1] = x[2] THEN Dedup(Tail(x)) ELSE <<x[1]>> \o Dedup(Tail(x))
np_unique(x) == Dedup(Sorted(x))

\* np.tile(x, k), np.repeat(x, k)
np_repeat_as_tile(x, k) == [i \in 1..(Len(x) * k) |-> x[((i - 1) % Len(x)) + 1]]
np_tile(x, k) == [i \in 1..(Len(x) * k) |-> x[((i - 1) % Len(x)) + 1]]
np_repeat(x, k) == [i \in 1..(Len(x) * k) |-> x[((i - 1) \div k) + 1]]

\* np.mean(x) of a column of numbers
RECURSIVE SumV(_)
SumV(x) == IF x = <<>> THEN NumV(0, 1) ELSE Add(Head(x), SumV(Tail(x)))
mean(x) == Times(SumV(x), NumV(1, Len(x)))

\* statistics.mode(x): the most common value, the first met of several
mode(x) ==
    LET count(v) == Cardinality({i \in DOMAIN x : x[i] = v})
        best == CHOOSE i \in DOMAIN x :
                   /\ \A j \in DOMAIN x : count(x[j]) <= count(x[i])
                   /\ \A j \in 1..(i - 1) : count(x[j]) < count(x[i])
    IN  x[best]

\* np.linspace(lo, hi, n), n >= 2
np_linspace(lo, hi, n) ==
    [i \in 1..n |-> Add(lo, Times(Sub(hi, lo), NumV(i - 1, n - 1)))]

\* np.quantile(x, np.linspace(0, 1, n)): linear interpolation between the
\* order statistics of x
np_quantile(x, n) ==
    LET sorted == Sorted(x)
        at(j) == LET pos == (j - 1) * (Len(x) - 1)
                     lo == (pos \div (n - 1)) + 1
                     hi == IF lo < Len(x) THEN lo + 1 ELSE lo
                 IN  Add(sorted[lo],
                         Times(Sub(sorted[hi], sorted[lo]), NumV(pos % (n - 1), n - 1)))
    IN  [j \in 1..n |-> at(j)]

\* pandas: is_numeric_dtype, is_string_dtype or is_categorical_dtype
is_numeric_dtype(dtype) == dtype \in {"int64", "float64"}
is_string_or_categorical_dtype(dtype) == dtype \in {"object", "category"}

\* A data frame and the operations on it.
DataFrame(columns, col, dtypes) == [columns |-> columns, col |-> col, dtypes |-> dtypes]
NRows(df) == IF df.columns = <<>> THEN 0 ELSE Len(df.col[df.columns[1]])
HasColumn(df, name) == \E i \in DOMAIN df.columns : df.columns[i] = name
\* df[names]
Select(df, names) ==
    DataFrame(names, [c \in ToSet(names) |-> df.col[c]], [c \in ToSet(names) |-> df.dtypes[c]])
\* df.drop(labels=name, axis=1)
Drop(df, name) ==
    LET names == SelectSeq(df.columns, LAMBDA c : c # name)
    IN  Select(df, names)
\* df[name] = column
Assign(df, name, column, dtype) ==
    DataFrame(IF HasColumn(df, name) THEN df.columns ELSE Append(df.columns, name),
              [c \in ToSet(df.columns) \cup {name} |-> IF c = name THEN column ELSE df.col[c]],
              [c \in ToSet(df.columns) \cup {name} |-> IF c = name THEN dtype ELSE df.dtypes[c]])
\* pd.concat([a, b]) of frames with the same columns
Concat(a, b) ==
    DataFrame(a.columns, [c \in ToSet(a.columns) |-> a.col[c] \o b.col[c]], a.dtypes)
\* the dtype pandas gives a column of these values
InferDtype(column) ==
    IF column = <<>> THEN "object"
    ELSE IF ~IsNum(column[1]) THEN "object"
    ELSE IF \A i \in DOMAIN column : column[i].d = 1 THEN "int64" ELSE "float64"

\* enforce_dtypes(data, df)
enforce_dtypes(data, df) ==
    LET observed(c) == IF HasColumn(data, c) THEN data.dtypes[c] ELSE df.dtypes[c]
    IN  DataFrame(df.columns,
                  [c \in ToSet(df.columns) |->
                      [i \in DOMAIN df.col[c] |-> astype(df.col[c][i], observed(c))]],
                  [c \in ToSet(df.columns) |-> observed(c)])

\* A dictionary of data: the keys in the order they were set, and the value
\* of each: an array (a list or an ndarray) or a scalar.
Arr(x) == [array |-> TRUE, v |-> x]
Sca(v) == [array |-> FALSE, v |-> <<v>>]
EmptyDict == [keys |-> <<>>, val |-> <<>>]
DictHas(d, key) == \E i \in DOMAIN d.keys : d.keys[i] = key
DictSet(d, key, value) ==
    [keys |-> IF DictHas(d, key) THEN d.keys ELSE Append(d.keys, key),
     val |-> [k \in ToSet(d.keys) \cup {key} |-> IF k = key THEN value ELSE d.val[k]]]

\* get_model_terms(model): the terms of the designs of the model; a term
\* that has components lists the variables it is made of, each with a kind.
get_model_terms(m) == m.terms

\* The names of the variables of the terms, in the order they are met.
RECURSIVE component_names(_)
component_names(terms) ==
    IF terms = <<>> THEN <<>>
    ELSE (IF Head(terms).has_components
          THEN [i \in DOMAIN Head(terms).components |-> Head(terms).components[i].name]
          ELSE <<>>) \o component_names(Tail(terms))

\* get_model_covariates(model): np.unique of the names; the names are
\* ordered as the columns of the data are
get_model_covariates(m) ==
    LET names == ToSet(component_names(get_model_terms(m)))
    IN  SelectSeq(m.column_order, LAMBDA c : c \in names)

\* The name of no variable: None where a name is expected.
NoName == ""

\* get_covariates(covariates): Covariates(main, group, panel); the keys of
\* a dictionary without "main", "group" or "panel" are taken in order
get_covariates(covariates) ==
    IF \E i \in DOMAIN covariates.keys : covariates.keys[i] \in {"main", "group", "panel"}
    THEN Returned([main |-> IF DictHas(covariates, "main") THEN covariates.val["main"]
                            ELSE NoName,
                   group |-> IF DictHas(covariates, "group") THEN covariates.val["group"]
                             ELSE NoName,
                   panel |-> IF DictHas(covariates, "panel") THEN covariates.val["panel"]
                             ELSE NoName])
    ELSE IF Len(covariates.keys) = 1
         THEN Returned([main |-> "dict_keys", group |-> NoName, panel |-> NoName])
    ELSE IF Len(covariates.keys) = 2
         THEN Returned([main |-> covariates.keys[1], group |-> covariates.keys[2],
                        panel |-> NoName])
    ELSE IF Len(covariates.keys) = 3
         THEN Returned([main |-> covariates.keys[1], group |-> covariates.keys[2],
                        panel |-> covariates.keys[3]])
    ELSE Raised("UnboundLocalError", None)

\* make_main_values(x)
make_main_values(x, dtype) ==
    IF is_numeric_dtype(dtype)
    THEN Returned(np_linspace(Sorted(x)[1], Sorted(x)[Len(x)], grid_n))
    ELSE IF is_string_or_categorical_dtype(dtype)
         THEN Returned(np_unique(x))
         ELSE Raised("ValueError", None)

\* make_group_values(x, groups_n)
make_group_values(x, dtype) ==
    IF is_string_or_categorical_dtype(dtype)
    THEN Returned(np_unique(x))
    ELSE IF is_numeric_dtype(dtype)
         THEN Returned(np_quantile(x, groups_n))
         ELSE Raised("ValueError", None)

\* get_unique_levels(x)
get_unique_levels(x) == np_unique(x)

\* The (name, kind) of the variables of the terms, in the order the loops of
\* set_default_values and set_default_contrast_values meet them.
RECURSIVE term_components(_)
term_components(terms) ==
    IF terms = <<>> THEN <<>>
    ELSE (IF Head(terms).has_components THEN Head(terms).components ELSE <<>>)
         \o term_components(Tail(terms))

\* make_group_panel_values(data, data_dict, main, group, panel, kind), the
\* values of the dictionary being arrays
make_group_panel_values(data, data_dict, main, group, panel, kind) ==
    LET has_group == group # NoName
        has_panel == panel # NoName
        gv == IF has_group THEN make_group_values(data.col[group], data.dtypes[group])
              ELSE Returned(<<>>)
        pv == IF has_panel THEN make_group_values(data.col[panel], data.dtypes[panel])
              ELSE Returned(<<>>)
        group_values == gv.obj
        panel_values == pv.obj
        group_n == Len(group_values)
        panel_n == Len(panel_values)
        main_values == data_dict.val[main].v
        main_n == Len(main_values)
    IN  IF has_group /\ ~HasColumn(data, group) THEN Raised("KeyError", None)
        ELSE IF gv.exc # NoExc THEN gv
        ELSE IF has_panel /\ ~HasColumn(data, panel) THEN Raised("KeyError", None)
        ELSE IF pv.exc # NoExc THEN pv
        ELSE IF ~DictHas(data_dict, main) THEN Raised("KeyError", None)
        ELSE IF kind = "predictions"
        THEN IF has_group /\ ~has_panel
             THEN Returned(DictSet(DictSet(data_dict, main, Arr(np_tile(main_values, group_n))),
                                   group, Arr(np_repeat(group_values, main_n))))
             ELSE IF ~has_group /\ has_panel
             THEN Returned(DictSet(DictSet(data_dict, main, Arr(np_tile(main_values, panel_n))),
                                   panel, Arr(np_repeat(panel_values, main_n))))
             ELSE IF has_group /\ has_panel
             THEN IF group = panel
                  THEN Returned(DictSet(DictSet(data_dict, main,
                                                Arr(np_tile(main_values, group_n))),
                                        group, Arr(np_repeat(group_values, main_n))))
                  ELSE Returned(DictSet(DictSet(DictSet(data_dict,
                           main, Arr(np_tile(np_tile(main_values, group_n), panel_n))),
                           group, Arr(np_tile(np_repeat(group_values, main_n), panel_n))),
                           panel, Arr(np_repeat(panel_values, main_n * group_n))))
             ELSE Returned(data_dict)
        ELSE IF kind = "comparison"
        THEN IF has_group /\ ~has_panel
             THEN Returned(DictSet(data_dict, group, Arr(np_unique(group_values))))
             ELSE IF has_group /\ has_panel
             THEN Returned(DictSet(DictSet(data_dict, group, Arr(np_unique(group_values))),
                                   panel, Arr(np_unique(panel_values))))
             ELSE Returned(data_dict)
        ELSE Returned(data_dict)

\* set_default_values: the loop over the variables of the terms
RECURSIVE set_defaults(_, _, _)
set_defaults(m, data_dict, components) ==
    IF components = <<>> THEN data_dict
    ELSE LET c == Head(components)
             next == IF DictHas(data_dict, c.name) THEN data_dict
                     ELSE IF c.kind = "numeric"
                          THEN DictSet(data_dict, c.name, Sca(mean(m.data.col[c.name])))
                     ELSE IF c.kind = "categoric"
                          THEN DictSet(data_dict, c.name, Sca(mode(m.data.col[c.name])))
                     ELSE data_dict
         IN  set_defaults(m, next, Tail(components))

\* set_default_values(model, data_dict, kind)
set_default_values(m, data_dict, kind) ==
    IF kind \notin {"comparison", "predictions"}
    THEN Raised("AssertionError", None)
    ELSE LET filled == set_defaults(m, data_dict, term_components(get_model_terms(m)))
         IN  IF kind = "comparison"
             THEN Returned([filled EXCEPT !.val =
                      [k \in DOMAIN filled.val |->
                          IF filled.val[k].array THEN filled.val[k] ELSE Arr(filled.val[k].v)]])
             ELSE Returned(filled)

\* set_default_contrast_values(model, contrast_predictor)
set_default_contrast_values(m, contrast_predictor) ==
    LET components == term_components(get_model_terms(m))
        found == {i \in DOMAIN components :
                     /\ components[i].name = contrast_predictor
                     /\ components[i].kind \in {"numeric", "categoric"}}
        last == CHOOSE i \in found : \A j \in found : j <= i
        x == m.data.col[contrast_predictor]
        centre == mean(x)
        contrast_dtype == m.data.dtypes[contrast_predictor]
    IN  IF ~HasColumn(m.data, contrast_predictor) THEN Raised("KeyError", None)
        ELSE IF found = {} THEN Raised("UnboundLocalError", None)
        ELSE IF components[last].kind = "numeric"
             THEN Returned(<<astype(Sub(centre, NumV(1, 2)), contrast_dtype),
                             astype(Add(centre, NumV(1, 2)), contrast_dtype)>>)
             ELSE Returned(get_unique_levels(x))

\* The arguments that name variables: None, a name, a list of names or a
\* dictionary from names to lists of values.
ArgNone == [t |-> "None", names |-> <<>>, values |-> <<>>]
ArgStr(name) == [t |-> "str", names |-> <<name>>, values |-> <<>>]
ArgList(names) == [t |-> "list", names |-> names, values |-> <<>>]
ArgDict(names, values) == [t |-> "dict", names |-> names, values |-> values]

\* " ".join(names)
RECURSIVE join(_)
join(names) ==
    IF names = <<>> THEN ""
    ELSE IF Len(names) = 1 THEN names[1]
    ELSE names[1] \o " " \o join(Tail(names))

\* ConditionalInfo(model, conditional): covariates and user_passed
ConditionalInfo(m, conditional) ==
    LET kinds == <<"main", "group", "panel">>
        k == IF Len(conditional.names) < 3 THEN Len(conditional.names) ELSE 3
    IN  [model |-> m, conditional |-> conditional,
         covariates |-> [keys |-> SubSeq(kinds, 1, k),
                         val |-> [c \in ToSet(SubSeq(kinds, 1, k)) |->
                                     conditional.names[CHOOSE i \in 1..3 : kinds[i] = c]]],
         user_passed |-> conditional.t = "dict"]

\* VariableInfo(model, variable, kind, grid, eps): name, values, user_passed
\* and passed_values.  values is a list of values, or for the slopes of the
\* observed data the two rows (x, x + eps).
VariableInfo(m, variable, kind, grid, eps) ==
    LET name == IF variable.t = "dict" THEN variable.names[1] ELSE join(variable.names)
        info(values, rows, user_passed, passed_values) ==
            [model |-> m, name |-> name, kind |-> kind, eps |-> eps,
             values |-> values, rows |-> rows,
             user_passed |-> user_passed, passed_values |-> passed_values]
    IN  IF variable.t = "dict"
        THEN LET passed == variable.values[1]
             IN  Returned(info(IF kind = "slopes"
                               THEN passed \o [i \in DOMAIN passed |-> Add(passed[i], eps)]
                               ELSE passed,
                               <<>>, TRUE, passed))
        ELSE LET x == m.data.col[name]
                 dtype == m.data.dtypes[name]
                 default == set_default_contrast_values(m, name)
             IN  IF default.exc # NoExc THEN default
                 ELSE IF kind = "slopes" /\ is_numeric_dtype(dtype)
                 THEN IF grid
                      THEN Returned(info(<<mean(x), Add(mean(x), eps)>>, <<>>, FALSE, <<>>))
                      ELSE Returned(info(<<>>, <<x, [i \in DOMAIN x |-> Add(x[i], eps)]>>,
                                         FALSE, <<>>))
                 ELSE Returned(info(default.obj, <<>>, FALSE, <<>>))

(***************************************************************************)
(* plots/create_data.py                                                    *)
(***************************************************************************)
\* pd.DataFrame(data_dict): the arrays are the columns, a scalar fills its
\* column; arrays of different lengths are refused
DataFrameOfDict(d) ==
    LET arrays == {k \in ToSet(d.keys) : d.val[k].array}
        lengths == {Len(d.val[k].v) : k \in arrays}
        n == IF lengths = {} THEN 1 ELSE CHOOSE l \in lengths : TRUE
        column(k) == IF d.val[k].array THEN d.val[k].v ELSE [i \in 1..n |-> d.val[k].v[1]]
    IN  IF Cardinality(lengths) > 1 \/ arrays = {}
        THEN Raised("ValueError", None)
        ELSE Returned(DataFrame(d.keys, [k \in ToSet(d.keys) |-> column(k)],
                                [k \in ToSet(d.keys) |-> InferDtype(column(k))]))

\* pd.DataFrame([dict(zip(keys, v)) for v in itertools.product over the values]):
\* the last key changes fastest
RECURSIVE ProductLen(_, _)
ProductLen(d, from) ==
    IF from > Len(d.keys) THEN 1
    ELSE Len(d.val[d.keys[from]].v) * ProductLen(d, from + 1)
CrossJoin(d) ==
    LET n == ProductLen(d, 1)
        position(k) == CHOOSE j \in DOMAIN d.keys : d.keys[j] = k
        column(k) == [r \in 1..n |->
                         d.val[k].v[(((r - 1) \div ProductLen(d, position(k) + 1))
                                     % Len(d.val[k].v)) + 1]]
    IN  DataFrame(d.keys, [k \in ToSet(d.keys) |-> column(k)],
                  [k \in ToSet(d.keys) |-> InferDtype(column(k))])

\* create_differences_data._grid_level
grid_level(condition_info, variable_info, user_passed, kind) ==
    LET m == condition_info.model
        got == get_covariates(condition_info.covariates)
        covariates == got.obj
        main_values == make_main_values(m.data.col[covariates.main],
                                        m.data.dtypes[covariates.main])
        made == make_group_panel_values(m.data, DictSet(EmptyDict, covariates.main,
                                                        Arr(main_values.obj)),
                                        covariates.main, covariates.group, covariates.panel,
                                        kind)
        passed == [keys |-> condition_info.conditional.names,
                   val |-> [k \in ToSet(condition_info.conditional.names) |->
                               Arr(condition_info.conditional.values[
                                   CHOOSE i \in DOMAIN condition_info.conditional.names :
                                       condition_info.conditional.names[i] = k])]]
        data_dict == IF user_passed THEN passed ELSE made.obj
        with_variable == DictSet(data_dict, variable_info.name, Arr(variable_info.values))
        comparison_data == set_default_values(m, with_variable, kind)
        pairwise_grid == CrossJoin(comparison_data.obj)
    IN  IF got.exc # NoExc THEN got
        ELSE IF ~user_passed /\ ~HasColumn(m.data, covariates.main) THEN Raised("KeyError", None)
        ELSE IF ~user_passed /\ main_values.exc # NoExc THEN main_values
        ELSE IF ~user_passed /\ made.exc # NoExc THEN made
        ELSE IF comparison_data.exc # NoExc THEN comparison_data
        ELSE IF \E k \in DOMAIN comparison_data.obj.val : ~comparison_data.obj.val[k].array
             THEN Raised("TypeError", None)
        ELSE IF kind = "comparisons"
             THEN Returned(enforce_dtypes(m.data, pairwise_grid))
             ELSE Returned(pairwise_grid)

\* The loop of _unit_level with every contrast_{idx} bound to the one frame
\* df instead of a copy of it: each assignment shows in all of them.
RECURSIVE unit_level_replicas_shared(_, _, _, _)
unit_level_replicas_shared(df, name, variable_vals, idx) ==
    IF idx > Len(variable_vals) THEN <<>>
    ELSE <<Assign(df, name, variable_vals[Len(variable_vals)],
                  InferDtype(variable_vals[Len(variable_vals)]))>>
         \o unit_level_replicas_shared(df, name, variable_vals, idx + 1)

\* create_differences_data._unit_level: the loop, contrast_{idx} for idx on
RECURSIVE unit_level_replicas(_, _, _, _)
unit_level_replicas(df, name, variable_vals, idx) ==
    IF idx > Len(variable_vals) THEN <<>>
    ELSE <<Assign(df, name, variable_vals[idx], InferDtype(variable_vals[idx]))>>
         \o unit_level_replicas(df, name, variable_vals, idx + 1)

\* pd.concat(frames)
RECURSIVE pd_concat(_)
pd_concat(frames) ==
    IF Len(frames) = 1 THEN frames[1] ELSE Concat(frames[1], pd_concat(Tail(frames)))

\* create_differences_data._unit_level
unit_level(variable_info, kind) ==
    LET m == variable_info.model
        covariates == get_model_covariates(m)
        df == Drop(Select(m.data, covariates), variable_info.name)
        n == NRows(m.data)
        variable_vals ==
            IF kind = "comparisons" \/ variable_info.rows = <<>>
            THEN [i \in DOMAIN variable_info.values |->
                     [r \in 1..n |-> variable_info.values[i]]]
            ELSE variable_info.rows
        replicas == unit_level_replicas(df, variable_info.name, variable_vals, 1)
    IN  IF \E i \in DOMAIN covariates : ~HasColumn(m.data, covariates[i])
        THEN Raised("KeyError", None)
        ELSE IF variable_info.name \notin ToSet(covariates) THEN Raised("KeyError", None)
        ELSE IF replicas = <<>> THEN Raised("ValueError", None)
        ELSE Returned(pd_concat(replicas))

\* create_differences_data(condition_info, variable_info, user_passed, kind)
create_differences_data(condition_info, variable_info, user_passed, kind) ==
    IF condition_info.covariates.keys = <<>>
    THEN unit_level(variable_info, kind)
    ELSE grid_level(condition_info, variable_info, user_passed, kind)

\* create_cap_data(model, covariates)
create_cap_data(m, covariates_dict) ==
    LET data == m.data
        got == get_covariates(covariates_dict)
        covariates == got.obj
        main == covariates.main
        main_values == make_main_values(data.col[main], data.dtypes[main])
        made == make_group_panel_values(data, DictSet(EmptyDict, main, Arr(main_values.obj)),
                                        main, covariates.group, covariates.panel,
                                        "predictions")
        data_dict == set_default_values(m, made.obj, "predictions")
        frame == DataFrameOfDict(data_dict.obj)
    IN  IF got.exc # NoExc THEN got
        ELSE IF ~HasColumn(data, main) THEN Raised("KeyError", None)
        ELSE IF main_values.exc # NoExc THEN main_values
        ELSE IF made.exc # NoExc THEN made
        ELSE IF data_dict.exc # NoExc THEN data_dict
        ELSE IF frame.exc # NoExc THEN frame
        ELSE Returned(enforce_dtypes(data, frame.obj))

\* The models the effects are computed for: y ~ x, y ~ x + g, y ~ x + g + z
\* on data with the columns y, x (integers), g (strings) and z (floats).
EffectTerm(name, kind) ==
    [name |-> name, has_components |-> TRUE,
     components |-> <<[name |-> name, kind |-> kind]>>]
InterceptEffectTerm == [name |-> "Intercept", has_components |-> FALSE, components |-> <<>>]
EffectFormulas ==
    {<<InterceptEffectTerm, EffectTerm("x", "numeric")>>,
     <<InterceptEffectTerm, EffectTerm("x", "numeric"), EffectTerm("g", "categoric")>>,
     <<InterceptEffectTerm, EffectTerm("x", "numeric"), EffectTerm("g", "categoric"),
       EffectTerm("z", "numeric")>>}
XColumns == [1..MaxObs -> {NumV(1, 1), NumV(2, 1)}]
GColumns == [1..MaxObs -> {StrV("a"), StrV("b")}]
EffectData(x, g) ==
    DataFrame(<<"y", "x", "g", "z">>,
              [c \in {"y", "x", "g", "z"} |->
                  CASE c = "y" -> [i \in 1..MaxObs |-> NumV(i, 1)]
                    [] c = "x" -> x
                    [] c = "g" -> g
                    [] OTHER -> [i \in 1..MaxObs |-> NumV(i, 2)]],
              [c \in {"y", "x", "g", "z"} |->
                  CASE c = "y" -> "int64" [] c = "x" -> "int64" [] c = "g" -> "object"
                    [] OTHER -> "float64"])
EffectModel(x, g, terms) ==
    [data |-> EffectData(x, g), terms |-> terms, column_order |-> <<"g", "x", "z">>]

\* The covariates of predictions: one to three names, as a list
CovariateLists ==
    {s \in SeqsUpTo({"x", "g", "z"}, 3) : Len(s) >= 1}
\* dict(zip(covariate_kinds, covariates))
ZipKinds(names) ==
    LET kinds == <<"main", "group", "panel">>
    IN  [keys |-> SubSeq(kinds, 1, Len(names)),
         val |-> [c \in ToSet(SubSeq(kinds, 1, Len(names))) |->
                     names[CHOOSE i \in 1..3 : kinds[i] = c]]]

\* The contrast and wrt arguments, and the conditional arguments
VariableArgs ==
    {ArgStr("x"), ArgStr("g"), ArgStr("z"),
     ArgDict(<<"x">>, <<<<NumV(1, 1), NumV(2, 1)>>>>),
     ArgDict(<<"x">>, <<<<NumV(1, 1), NumV(2, 1), NumV(4, 1)>>>>),
     ArgDict(<<"g">>, <<<<StrV("a"), StrV("b")>>>>)}
ConditionalArgs ==
    {ArgNone, ArgStr("g"), ArgList(<<"z", "g">>),
     ArgDict(<<"z">>, <<<<NumV(1, 1), NumV(2, 1)>>>>)}
\* eps as the caller of slopes passes it, and eps of comparisons (0.5)
SlopesEps == NumV(1, 4)
ComparisonsEps == NumV(1, 2)

\* The kind of effect slopes computes for wrt: "comparisons" when the column
\* of a wrt given by name or in a dictionary is of strings
slopes_effect_type(m, wrt) ==
    IF /\ wrt.t \in {"str", "dict"}
       /\ HasColumn(m.data, wrt.names[1])
       /\ is_string_or_categorical_dtype(m.data.dtypes[wrt.names[1]])
    THEN "comparisons"
    ELSE "slopes"

NoDataCall == [op |-> "none", model |-> None, args |-> None, kind |-> "",
               variable_info |-> None, exc |-> NoExc, frame |-> None, data |-> None]

\* {"main": names[1], "panel": names[2]}
MainPanel(names) ==
    [keys |-> <<"main", "panel">>, val |-> [main |-> names[1], panel |-> names[2]]]
\* The covariates of predictions after its checks: made of a list of names,
\* or a dictionary with the keys "main" and "panel"
CovariatesArgs ==
    {ZipKinds(names) : names \in CovariateLists}
    \cup {MainPanel(names) : names \in {s \in CovariateLists : Len(s) = 2}}

\* create_cap_data(model, covariates), as predictions calls it
CreateCapData ==
    /\ dataCall.op = "none"
    /\ \E x \in XColumns, g \in GColumns, terms \in EffectFormulas,
          covariates \in CovariatesArgs :
         LET m == EffectModel(x, g, terms)
             r == create_cap_data(m, covariates)
         IN  dataCall' = [op |-> "create_cap_data", model |-> m,
                          args |-> [covariates |-> covariates], kind |-> "predictions",
                          variable_info |-> None,
                          exc |-> r.exc, frame |-> r.obj, data |-> m.data]
    /\ UNCHANGED <<estCall, effCall>>
    /\ UNCHANGED notPlot

\* create_differences_data(conditional_info, variable_info, user_passed, kind),
\* as comparisons and slopes call it
CreateDifferencesData ==
    /\ dataCall.op = "none"
    /\ \E x \in XColumns, g \in GColumns, terms \in EffectFormulas,
          effect \in {"comparisons", "slopes"},
          variable \in VariableArgs, conditional \in ConditionalArgs :
         LET m == EffectModel(x, g, terms)
             conditional_info == ConditionalInfo(m, conditional)
             kind == IF effect = "slopes" THEN slopes_effect_type(m, variable) ELSE effect
             info == IF effect = "comparisons"
                     THEN VariableInfo(m, variable, "comparisons", FALSE, ComparisonsEps)
                     ELSE VariableInfo(m, variable, kind,
                                       conditional_info.covariates.keys # <<>>, SlopesEps)
             r == create_differences_data(conditional_info, info.obj,
                                          conditional_info.user_passed, kind)
         IN  /\ ~(effect = "slopes" /\ conditional.t = "None" /\ variable.t = "dict")
             /\ info.exc = NoExc
             /\ dataCall' = [op |-> "create_differences_data", model |-> m,
                             args |-> [variable |-> variable, conditional |-> conditional,
                                       effect |-> effect],
                             kind |-> kind, variable_info |-> info.obj,
                             exc |-> r.exc, frame |-> r.obj, data |-> m.data]
    /\ UNCHANGED <<estCall, effCall>>
    /\ UNCHANGED notPlot

\* The columns a contrast variable can have: integers around zero, as
\* integers or as floats
ContrastColumns == [1..MaxObs -> {NumV(-1, 1), NumV(0, 1), NumV(1, 1), NumV(2, 1)}]
ContrastModel(x, dtype, terms) ==
    [EffectModel(x, [i \in 1..MaxObs |-> StrV("a")], terms) EXCEPT !.data.dtypes["x"] = dtype]
\* the kind of the component of the model that a predictor is, "" if none
ComponentKind(m, name) ==
    LET components == term_components(get_model_terms(m))
        found == {i \in DOMAIN components : components[i].name = name}
    IN  IF found = {} THEN ""
        ELSE components[CHOOSE i \in found : \A j \in found : j <= i].kind

\* set_default_contrast_values(model, contrast_predictor), as ContrastInfo
\* calls it for a contrast given by name
SetDefaultContrastValues ==
    /\ dataCall.op = "none"
    /\ \E x \in ContrastColumns, dtype \in {"int64", "float64"}, terms \in EffectFormulas,
          contrast_predictor \in {"x", "g", "z"} :
         \E m \in {ContrastModel(x, dtype, terms)} :
            \E r \in {set_default_contrast_values(m, contrast_predictor)} :
               dataCall' = [op |-> "set_default_contrast_values", model |-> m,
                            args |-> [contrast_predictor |-> contrast_predictor],
                            kind |-> ComponentKind(m, contrast_predictor),
                            variable_info |-> None,
                            exc |-> r.exc, frame |-> r.obj, data |-> m.data]
    /\ UNCHANGED <<estCall, effCall>>
    /\ UNCHANGED notPlot

(***************************************************************************)
(* plots/effects.py: ResponseInfo and PredictiveDifferences                *)
(***************************************************************************)
\* x / y for two numbers, y not zero
Quot(a, b) ==
    IF b.n < 0 THEN NumV(-(a.n * b.d), a.d * (-b.n)) ELSE NumV(a.n * b.d, a.d * b.n)
Floor(v) == v.n \div v.d
\* round(x, 4): the nearest multiple of 1/10000, the even one of two nearest
round4(v) ==
    LET scaled == Times(v, NumV(10000, 1))
        low == Floor(scaled)
        rest == Sub(scaled, NumV(low, 1))
        up == \/ Leq(NumV(1, 2), rest) /\ rest # NumV(1, 2)
              \/ rest = NumV(1, 2) /\ low % 2 = 1
    IN  NumV(IF up THEN low + 1 ELSE low, 10000)

\* lower_bound = round((1 - prob) / 2, 4); upper_bound = 1 - lower_bound
LowerBound(prob) == round4(Times(Sub(NumV(1, 1), prob), NumV(1, 2)))
UpperBound(prob) == Sub(NumV(1, 1), LowerBound(prob))

\* f"lower_{bound * 100}%", f"upper_{bound * 100}%": the side and the number
\* printed before the percent sign
BoundName(side, bound) == <<side, Times(bound, NumV(100, 1)), "%">>

\* ResponseInfo(name, target, lower_bound, upper_bound) and __post_init__
ResponseInfo(name, target, lower_bound, upper_bound) ==
    [name |-> name, target |-> target,
     lower_bound |-> lower_bound, upper_bound |-> upper_bound,
     name_target |-> IF target = None THEN name ELSE name \o "_" \o target[1],
     name_obs |-> name \o "_obs",
     lower_bound_name |-> BoundName("lower", lower_bound),
     upper_bound_name |-> BoundName("upper", upper_bound)]
\* the defaults of lower_bound and upper_bound
DefaultLowerBound == NumV(3, 100)
DefaultUpperBound == NumV(97, 100)

\* SUPPORTED_COMPARISONS[comparison_type](x, y)
SUPPORTED_COMPARISONS(comparison_type, x, y) ==
    IF comparison_type = "diff" THEN Sub(x, y) ELSE Quot(x, y)

\* the entries of a sequence where the mask is true, in order
RECURSIVE Masked(_, _)
Masked(x, mask) ==
    IF x = <<>> THEN <<>>
    ELSE (IF Head(mask) THEN <<Head(x)>> ELSE <<>>) \o Masked(Tail(x), Tail(mask))

\* the pairs <<i, j>> with i < j <= K from <<i, j>> on, in the order of
\* itertools.combinations
RECURSIVE PairsFrom(_, _, _)
PairsFrom(i, j, K) ==
    IF i >= K THEN <<>>
    ELSE IF j > K THEN PairsFrom(i + 1, i + 2, K)
    ELSE <<<<i, j>>>> \o PairsFrom(i, j + 1, K)
\* the neighbouring keys only
adjacent_pairs(keys) == [i \in 1..(Len(keys) - 1) |-> <<keys[i], keys[i + 1]>>]
\* list(itertools.combinations(keys, 2))
itertools_combinations(keys) ==
    LET pairs == PairsFrom(1, 2, Len(keys))
    IN  [p \in DOMAIN pairs |-> <<keys[pairs[p][1]], keys[pairs[p][2]]>>]

\* PredictiveDifferences.set_variable_values(draws): the pairs of keys of
\* draws, and variable.values as it leaves them (rows of values)
set_variable_values(self, values, keys) ==
    IF self.kind = "slopes" /\ self.variable.user_passed
    THEN LET size == Len(self.variable.passed_values)
             original_data == SubSeq(keys, 1, size)
             original_data_plus_eps == SubSeq(keys, size + 1, Len(keys))
         IN  IF Len(original_data) # Len(original_data_plus_eps)
                \/ Len(values) # 2 * size
             THEN Raised("ValueError", None)
             ELSE Returned([pairwise_variables |->
                                [i \in 1..size |->
                                    <<original_data[i], original_data_plus_eps[i]>>],
                            values |->
                                <<[i \in 1..size |-> values[i][1]],
                                  [i \in 1..size |-> values[size + i][1]]>>])
    ELSE Returned([pairwise_variables |-> itertools_combinations(keys),
                   values |-> values])

\* x op y on two arrays over the observations (and the draws): xarray keeps
\* the observations both have
Aligned(x, y) == IF Len(x) < Len(y) THEN Len(x) ELSE Len(y)

\* PredictiveDifferences.get_slope_estimate
get_slope_estimate(self, predictive_difference, pair, draws, slope, eps, wrt_x) ==
    Let([r \in DOMAIN predictive_difference |->
            [d \in DOMAIN predictive_difference[r] |->
                Quot(predictive_difference[r][d], eps)]],
        LAMBDA divided :
    Let(wrt_x[pair[2]], LAMBDA x :
    Let(draws[pair[2]], LAMBDA y_hat :
    Let(IF slope = "eyex" THEN Aligned(divided, IF Len(x) < Len(y_hat) THEN x ELSE y_hat)
        ELSE IF slope = "eydx" THEN Aligned(divided, y_hat)
        ELSE IF slope = "dyex" THEN Aligned(divided, x)
        ELSE Len(divided),
        LAMBDA n :
        [r \in 1..n |->
            [d \in DOMAIN divided[r] |->
                CASE slope = "eyex" -> Times(divided[r][d], Quot(x[r], y_hat[r][d]))
                  [] slope = "eydx" -> Times(divided[r][d], Quot(NumV(1, 1), y_hat[r][d]))
                  [] slope = "dyex" -> Times(divided[r][d], x[r])
                  [] OTHER -> divided[r][d]]]))))

\* the interval of a difference: the call of az.hdi or of quantile, by its
\* arguments
Bounds(use_hdi, prob, response) ==
    IF use_hdi THEN [method |-> "hdi", hdi_prob |-> Some(prob), q |-> <<>>]
    ELSE [method |-> "quantile", hdi_prob |-> None,
          q |-> <<response.lower_bound, response.upper_bound>>]

\* the sequences of a sequence one after the other
RECURSIVE Flatten(_)
Flatten(x) == IF x = <<>> THEN <<>> ELSE Head(x) \o Flatten(Tail(x))

\* PredictiveDifferences.get_estimate(idata, comparison_type, slope, eps, prob);
\* posterior is idata.posterior[response.name_target], by observation and draw
get_estimate(self, posterior, comparison_type, slope, eps, prob) ==
    IF self.kind \notin {"slopes", "comparisons"} \/ comparison_type \notin {"diff", "ratio"}
    THEN Raised("AssertionError", self)
    ELSE
    Let(IF self.variable.rows # <<>> THEN self.variable.rows
        ELSE [i \in DOMAIN self.variable.values |-> <<self.variable.values[i]>>],
        LAMBDA values :
    Let(self.preds_data.col[self.variable.name], LAMBDA column :
    Let([idx \in DOMAIN values |-> [r \in DOMAIN column |-> column[r] \in ToSet(values[idx])]],
        LAMBDA mask :
    Let([idx \in DOMAIN values |-> Masked(posterior, mask[idx])], LAMBDA draws :
    Let([idx \in DOMAIN values |->
            IF slope \in {"eyex", "dyex"} THEN Masked(column, mask[idx]) ELSE <<>>],
        LAMBDA variable_data :
    Let(set_variable_values(self, values, [idx \in DOMAIN values |-> idx]), LAMBDA set :
    IF set.exc # NoExc THEN Raised(set.exc, self)
    ELSE IF self.kind = "slopes" /\ eps = None /\ set.obj.pairwise_variables # <<>>
    THEN Raised("TypeError", self)
    ELSE
    Let([idx \in DOMAIN set.obj.pairwise_variables |->
            Let(set.obj.pairwise_variables[idx], LAMBDA pair :
            Let([r \in 1..Aligned(draws[pair[2]], draws[pair[1]]) |->
                    [d \in DOMAIN draws[pair[2]][r] |->
                        SUPPORTED_COMPARISONS(comparison_type, draws[pair[2]][r][d],
                                              draws[pair[1]][r][d])]],
                LAMBDA predictive_difference :
                IF self.kind = "slopes"
                THEN get_slope_estimate(self, predictive_difference, pair, draws, slope,
                                        eps[1], variable_data)
                ELSE predictive_difference))],
        LAMBDA differences :
        Returned([self EXCEPT
            !.estimate_name = IF self.kind = "slopes" THEN slope ELSE comparison_type,
            !.variable = [self.variable EXCEPT !.values = <<>>, !.rows = set.obj.values],
            !.pairs = set.obj.pairwise_variables,
            !.differences = differences,
            !.estimate =
                [mean |-> Flatten([idx \in DOMAIN differences |->
                             [r \in DOMAIN differences[idx] |-> mean(differences[idx][r])]]),
                 bounds |-> [idx \in DOMAIN differences |->
                                 Bounds(self.use_hdi, prob, self.response)],
                 use_hdi |-> self.use_hdi]]))))))))

\* PredictiveDifferences(model, preds_data, variable, conditional, response,
\* use_hdi, kind)
PredictiveDifferences(m, preds_data, variable, conditional, response, use_hdi, kind) ==
    [model |-> m, preds_data |-> preds_data, variable |-> variable,
     conditional |-> conditional, response |-> response, use_hdi |-> use_hdi,
     kind |-> kind, estimate_name |-> "", pairs |-> <<>>, differences |-> <<>>,
     estimate |-> None]

\* PredictiveDifferences.get_summary_df: the table, by its columns and the
\* number of its rows
get_summary_df(self) ==
    LET values == self.variable.rows
        name == self.variable.name
        N == NRows(self.preds_data)
        others == Drop(self.preds_data, name)
        column == self.preds_data.col[name]
        mask(idx) == [r \in DOMAIN column |-> column[r] \in ToSet(values[idx])]
        row(r) == [c \in ToSet(others.columns) |-> others.col[c][r]]
        distinct == IF others.columns = <<>> THEN N
                    ELSE Cardinality({row(r) : r \in 1..N})
        flat == Flatten(values)
        combinations == (Len(flat) * (Len(flat) - 1)) \div 2
        table(rows) ==
            [term |-> name, estimate_type |-> self.estimate_name,
             covariates |-> others.columns, rows |-> rows,
             estimate |-> self.estimate.mean,
             lower_bound_name |-> self.response.lower_bound_name,
             upper_bound_name |-> self.response.upper_bound_name,
             bounds |-> self.estimate.bounds]
    IN  IF Len(values) > 2 /\ self.kind = "comparisons"
        THEN LET rows == distinct * Len(values)
             IN  IF combinations * (N \div combinations) # rows
                    \/ Len(self.estimate.mean) # rows
                 THEN Raised("ValueError", None)
                 ELSE Returned(table(rows))
        ELSE IF values = <<>> THEN Raised("ValueError", None)
        ELSE LET rows == Len(Masked(column, mask(1)))
             IN  IF Len(self.estimate.mean) # rows THEN Raised("ValueError", None)
                 ELSE Returned(table(rows))

\* Model.predict(idata, data=data, inplace=False): the mean of the response
\* for every row of data and every draw of the coefficients in idata
Model_predict(m, idata, data) ==
    LET names == component_names(m.terms)
        term(coef, name, r) ==
            LET v == data.col[name][r]
            IN  IF IsNum(v) THEN Times(coef[name], v)
                ELSE IF v = StrV("a") THEN NumV(0, 1) ELSE coef[name]
        RECURSIVE linear(_, _, _)
        linear(coef, r, i) ==
            IF i > Len(names) THEN coef.Intercept
            ELSE Add(term(coef, names[i], r), linear(coef, r, i + 1))
    IN  IF \E i \in DOMAIN names : ~HasColumn(data, names[i])
        THEN Raised("KeyError", None)
        ELSE Returned([r \in 1..NRows(data) |->
                          [d \in DOMAIN idata |-> linear(idata[d], r, 1)]])

\* The draws of the coefficients in idata
Coefs ==
    {[Intercept |-> NumV(1, 1), x |-> NumV(b, 1), g |-> NumV(1, 1), z |-> NumV(2, 1)] :
        b \in 1..2}
InferenceData == [1..Draws -> Coefs]
Probs == {NumV(94, 100), NumV(8, 10)}
FullFormula ==
    <<InterceptEffectTerm, EffectTerm("x", "numeric"), EffectTerm("g", "categoric"),
      EffectTerm("z", "numeric")>>
\* a column of strings with both levels
GColumn == [i \in 1..MaxObs |-> IF i % 2 = 1 THEN StrV("a") ELSE StrV("b")]

NoEstCall == [op |-> "none", self |-> None, exc |-> NoExc, posterior |-> <<>>,
              comparison_type |-> "", prob |-> None]

\* PredictiveDifferences(...).get_estimate(idata, comparison_type, slope, eps, prob)
\* on the data create_differences_data makes of the observed rows
GetEstimate ==
    /\ estCall.op = "none"
    /\ \E x \in XColumns, variable \in VariableArgs, kind \in {"comparisons", "slopes"},
          comparison_type \in {"diff", "ratio"}, slope \in {"dydx", "eyex"},
          use_hdi \in BOOLEAN, prob \in Probs, idata \in InferenceData :
         /\ kind = "slopes" => variable.names[1] \in {"x", "z"}
         /\ kind = "comparisons" => slope = "dydx"
         /\ \E m \in {EffectModel(x, GColumn, FullFormula)} :
            \E info \in {VariableInfo(m, variable, kind, FALSE,
                                      IF kind = "slopes" THEN SlopesEps ELSE ComparisonsEps)} :
            \E conditional_info \in {ConditionalInfo(m, ArgNone)} :
              /\ info.exc = NoExc
              /\ \E preds_data \in {create_differences_data(conditional_info, info.obj,
                                                            FALSE, kind)} :
                   /\ preds_data.exc = NoExc
                   /\ \E posterior \in {Model_predict(m, idata, preds_data.obj)} :
                        /\ posterior.exc = NoExc
                        /\ \E self \in {PredictiveDifferences(m, preds_data.obj, info.obj,
                                   conditional_info,
                                   ResponseInfo("y", Some("mean"), LowerBound(prob),
                                                UpperBound(prob)),
                                   use_hdi, kind)} :
                           \E r \in {get_estimate(self, posterior.obj, comparison_type, slope,
                                                  IF kind = "slopes" THEN Some(SlopesEps)
                                                  ELSE None, prob)} :
                             estCall' = [op |-> "get_estimate", self |-> r.obj,
                                         exc |-> r.exc, posterior |-> posterior.obj,
                                         comparison_type |-> comparison_type,
                                         prob |-> Some(prob)]
    /\ UNCHANGED <<dataCall, effCall>>
    /\ UNCHANGED notPlot

(***************************************************************************)
(* plots/effects.py: predictions, comparisons, slopes                      *)
(***************************************************************************)
\* listify(obj): [] for None, [obj] for a string, the list for a list
listify(arg) == arg.names
\* az.rcParams["stats.hdi_prob"]
HdiProb == NumV(94, 100)
\* prob <= 0 only
BadProb_below(prob) == Leq(prob, NumV(0, 1))
\* not 0 < prob < 1
BadProb(prob) == ~(Leq(NumV(0, 1), prob) /\ prob # NumV(0, 1) /\ Leq(prob, NumV(1, 1)) /\ prob # NumV(1, 1))

\* What a call of predictions, comparisons or slopes did: the exception it
\* raised, whether it called create_cap_data or create_differences_data and
\* Model.predict, the kind of effect, prob after the default, and the table
Effect(exc, data_called, predict_called, effect_type, prob, table) ==
    [exc |-> exc, data_called |-> data_called, predict_called |-> predict_called,
     effect_type |-> effect_type, prob |-> prob, table |-> table]

\* a dictionary of covariates of predictions, from kinds to names
CovDict(keys, names) ==
    [t |-> "dict", names |-> names,
     dict |-> [keys |-> keys,
               val |-> [c \in ToSet(keys) |-> names[CHOOSE i \in DOMAIN keys : keys[i] = c]]]]

\* predictions(model, idata, covariates, target, pps, use_hdi, prob)
predictions(m, idata, covariates, target, pps, use_hdi, prob_arg) ==
    LET covariate_kinds == <<"main", "group", "panel">>
        names == listify(covariates)
        covariates_dict ==
            IF covariates.t # "dict"
            THEN ZipKinds(SubSeq(names, 1, IF Len(names) < 3 THEN Len(names) ELSE 3))
            ELSE covariates.dict
        prob == IF prob_arg = None THEN HdiProb ELSE prob_arg[1]
        response == ResponseInfo("y", Some(target), DefaultLowerBound, DefaultUpperBound)
        lower_bound == LowerBound(prob)
        upper_bound == Sub(NumV(1, 1), lower_bound)
        bounded == [response EXCEPT !.lower_bound = lower_bound, !.upper_bound = upper_bound]
    IN  IF pps /\ target # "mean" THEN Effect("ValueError", FALSE, FALSE, "predictions", None, None)
        ELSE IF covariates.t = "dict"
                /\ ("main" \notin ToSet(covariates_dict.keys)
                    \/ ~(ToSet(covariates_dict.keys) \subseteq ToSet(covariate_kinds)))
        THEN Effect("AssertionError", FALSE, FALSE, "predictions", None, None)
        ELSE IF ~(1 <= Len(covariates_dict.keys) /\ Len(covariates_dict.keys) <= 3)
        THEN Effect("AssertionError", FALSE, FALSE, "predictions", None, None)
        ELSE IF BadProb(prob)
        THEN Effect("ValueError", FALSE, FALSE, "predictions", Some(prob), None)
        ELSE
        Let(create_cap_data(m, covariates_dict), LAMBDA cap_data :
        IF cap_data.exc # NoExc
        THEN Effect(cap_data.exc, TRUE, FALSE, "predictions", Some(prob), None)
        ELSE
        Let(Model_predict(m, idata, cap_data.obj), LAMBDA predicted :
        IF predicted.exc # NoExc
        THEN Effect(predicted.exc, TRUE, TRUE, "predictions", Some(prob), None)
        ELSE Effect(NoExc, TRUE, TRUE, "predictions", Some(prob),
                    [term |-> "", estimate_type |-> "",
                     covariates |-> cap_data.obj.columns, rows |-> NRows(cap_data.obj),
                     estimate |-> [r \in DOMAIN predicted.obj |-> mean(predicted.obj[r])],
                     lower_bound_name |-> bounded.lower_bound_name,
                     upper_bound_name |-> bounded.upper_bound_name,
                     bounds |-> [r \in {1} |-> Bounds(use_hdi, prob, bounded)]])))

\* what comparisons and slopes do once the variable and the response are
\* known: the data, the predictions, the estimate and the summary
predictive_differences(m, idata, variable_info, conditional_info, response, use_hdi, effect_type, comparison_type, slope, eps, estimate_prob, prob) ==
    Let(create_differences_data(conditional_info, variable_info,
                                conditional_info.user_passed, effect_type),
        LAMBDA data :
    IF data.exc # NoExc THEN Effect(data.exc, TRUE, FALSE, effect_type, Some(prob), None)
    ELSE
    Let(Model_predict(m, idata, data.obj), LAMBDA predicted :
    IF predicted.exc # NoExc
    THEN Effect(predicted.exc, TRUE, TRUE, effect_type, Some(prob), None)
    ELSE
    Let(PredictiveDifferences(m, data.obj, variable_info, conditional_info, response,
                              use_hdi, effect_type),
        LAMBDA predictive_difference :
    Let(get_estimate(predictive_difference, predicted.obj, comparison_type, slope, eps,
                     estimate_prob),
        LAMBDA estimated :
    IF estimated.exc # NoExc
    THEN Effect(estimated.exc, TRUE, TRUE, effect_type, Some(prob), None)
    ELSE
    Let(get_summary_df(estimated.obj), LAMBDA summary :
        Effect(summary.exc, TRUE, TRUE, effect_type, Some(prob), summary.obj))))))

\* comparisons(model, idata, contrast, conditional, comparison_type, use_hdi, prob),
\* average_by left at None
comparisons(m, idata, contrast, conditional, comparison_type, use_hdi, prob_arg) ==
    LET prob == IF prob_arg = None THEN HdiProb ELSE prob_arg[1]
        lower_bound == LowerBound(prob)
        upper_bound == Sub(NumV(1, 1), lower_bound)
        contrast_info == VariableInfo(m, contrast, "comparisons", FALSE, ComparisonsEps)
        conditional_info == ConditionalInfo(m, conditional)
        response == ResponseInfo("y", Some("mean"), lower_bound, upper_bound)
    IN  IF contrast.t \notin {"dict", "list", "str"}
        THEN Effect("ValueError", FALSE, FALSE, "comparisons", None, None)
        ELSE IF contrast.t \in {"dict", "list"} /\ Len(contrast.names) > 1
        THEN Effect("ValueError", FALSE, FALSE, "comparisons", None, None)
        ELSE IF comparison_type \notin {"diff", "ratio"}
        THEN Effect("ValueError", FALSE, FALSE, "comparisons", None, None)
        ELSE IF BadProb(prob)
        THEN Effect("ValueError", FALSE, FALSE, "comparisons", Some(prob), None)
        ELSE IF contrast_info.exc # NoExc
        THEN Effect(contrast_info.exc, FALSE, FALSE, "comparisons", Some(prob), None)
        ELSE predictive_differences(m, idata, contrast_info.obj, conditional_info, response, use_hdi,
                         "comparisons", comparison_type, "dydx", None, prob, prob)

\* prob: float = 0.94 of get_estimate
GetEstimateProb == NumV(94, 100)

\* slopes(model, idata, wrt, conditional, eps, slope, use_hdi, prob),
\* average_by left at None
slopes(m, idata, wrt, conditional, eps_arg, slope, use_hdi, prob_arg) ==
    LET prob == IF prob_arg = None THEN HdiProb ELSE prob_arg[1]
        conditional_info == ConditionalInfo(m, conditional)
        grid == conditional_info.covariates.keys # <<>>
        effect_type == slopes_effect_type(m, wrt)
        eps == IF effect_type = "comparisons" THEN None ELSE Some(eps_arg)
        wrt_info == VariableInfo(m, wrt, effect_type, grid, eps_arg)
        lower_bound == LowerBound(prob)
        upper_bound == Sub(NumV(1, 1), lower_bound)
        response == ResponseInfo("y", Some("mean"), lower_bound, upper_bound)
    IN  IF conditional.t = "None" /\ wrt.t = "dict"
        THEN Effect("ValueError", FALSE, FALSE, "slopes", None, None)
        ELSE IF wrt.t = "dict" /\ Len(wrt.names) > 1
        THEN Effect("ValueError", FALSE, FALSE, "slopes", None, None)
        ELSE IF BadProb(prob)
        THEN Effect("ValueError", FALSE, FALSE, "slopes", Some(prob), None)
        ELSE IF \E i \in DOMAIN wrt.names : ~HasColumn(m.data, wrt.names[i])
        THEN Effect("KeyError", FALSE, FALSE, "slopes", Some(prob), None)
        ELSE IF wrt_info.exc # NoExc
        THEN Effect(wrt_info.exc, FALSE, FALSE, effect_type, Some(prob), None)
        ELSE predictive_differences(m, idata, wrt_info.obj, conditional_info, response, use_hdi,
                         effect_type, "diff", slope, eps, GetEstimateProb, prob)

\* The arguments of the calls
EffectX == {x \in XColumns : x[1] = NumV(1, 1)}
Idata == [d \in 1..Draws |-> [Intercept |-> NumV(1, 1), x |-> NumV(d, 1), g |-> NumV(1, 1), z |-> NumV(2, 1)]]
ProbArgs ==
    {None, Some(NumV(0, 1)), Some(NumV(1, 1)), Some(NumV(-1, 10)), Some(NumV(3, 2)),
     Some(NumV(8, 10)), Some(NumV(94123, 100000))}
PredictionsCovariates ==
    {ArgStr("x"), ArgList(<<"x", "g">>), ArgList(<<"z", "x", "g">>), ArgList(<<>>),
     CovDict(<<"main", "panel">>, <<"x", "g">>), CovDict(<<"group">>, <<"g">>)}
ContrastArgs ==
    VariableArgs \cup
    {ArgNone, ArgList(<<"x">>), ArgList(<<"x", "g">>),
     ArgDict(<<"x", "g">>, <<<<NumV(1, 1), NumV(2, 1)>>, <<StrV("a"), StrV("b")>>>>)}
WrtArgs == ContrastArgs \ {ArgNone}
EffectConditionals == {ArgNone, ArgStr("z"), ArgDict(<<"z">>, <<<<NumV(1, 1), NumV(2, 1)>>>>)}
NoArgs ==
    [covariates |-> ArgNone, variable |-> ArgNone, conditional |-> ArgNone, target |-> "",
     pps |-> FALSE, comparison_type |-> "", slope |-> "", use_hdi |-> FALSE, prob |-> None]

NoEffCall == [op |-> "none", args |-> NoArgs, result |-> Effect(NoExc, FALSE, FALSE, "", None, None)]

\* predictions(model, idata, covariates, target, pps, use_hdi, prob)
Predictions ==
    /\ effCall.op = "none"
    /\ \E x \in EffectX, covariates \in PredictionsCovariates, target \in {"mean", "sigma"},
          pps \in BOOLEAN, use_hdi \in BOOLEAN, prob \in ProbArgs :
         \E m \in {EffectModel(x, GColumn, FullFormula)} :
             /\ target = "sigma" => pps
             /\ effCall' = [op |-> "predictions",
                            args |-> [NoArgs EXCEPT !.covariates = covariates, !.target = target,
                                          !.pps = pps, !.use_hdi = use_hdi, !.prob = prob],
                            result |-> predictions(m, Idata, covariates, target, pps,
                                                   use_hdi, prob)]
    /\ UNCHANGED <<dataCall, estCall>>
    /\ UNCHANGED notPlot

\* comparisons(model, idata, contrast, conditional, comparison_type, use_hdi, prob)
Comparisons ==
    /\ effCall.op = "none"
    /\ \E x \in EffectX, contrast \in ContrastArgs, conditional \in EffectConditionals,
          comparison_type \in {"diff", "ratio", "odds"}, use_hdi \in BOOLEAN,
          prob \in ProbArgs :
         \E m \in {EffectModel(x, GColumn, FullFormula)} :
             /\ comparison_type = "odds" => prob \in {None, Some(NumV(3, 2))}
             /\ effCall' = [op |-> "comparisons",
                            args |-> [NoArgs EXCEPT !.variable = contrast,
                                          !.conditional = conditional,
                                          !.comparison_type = comparison_type,
                                          !.use_hdi = use_hdi, !.prob = prob],
                            result |-> comparisons(m, Idata, contrast, conditional,
                                                   comparison_type, use_hdi, prob)]
    /\ UNCHANGED <<dataCall, estCall>>
    /\ UNCHANGED notPlot

\* slopes(model, idata, wrt, conditional, eps, slope, use_hdi, prob)
Slopes ==
    /\ effCall.op = "none"
    /\ \E x \in EffectX, wrt \in WrtArgs, conditional \in EffectConditionals,
          slope \in {"dydx", "eyex"}, use_hdi \in BOOLEAN, prob \in ProbArgs :
         \E m \in {EffectModel(x, GColumn, FullFormula)} :
             effCall' = [op |-> "slopes",
                         args |-> [NoArgs EXCEPT !.variable = wrt, !.conditional = conditional,
                                       !.slope = slope, !.use_hdi = use_hdi, !.prob = prob],
                         result |-> slopes(m, Idata, wrt, conditional, SlopesEps, slope,
                                           use_hdi, prob)]
    /\ UNCHANGED <<dataCall, estCall>>
    /\ UNCHANGED notPlot

(***************************************************************************)
(* backends/pymc.py: PyMC3BackEnd                                          *)
(***************************************************************************)
\* A value of the args of a prior: a number or array, or a Prior
Value == [is_prior |-> FALSE, name |-> "", args |-> <<>>]
\* keyword arguments, in the order of the dictionary
Kwargs(keys, val) == [keys |-> keys, val |-> val]
NoKwargs == [keys |-> <<>>, val |-> <<>>]
HyperpriorValue(name, args) == [is_prior |-> TRUE, name |-> name, args |-> args]
KwargsSet(kwargs, key, value) ==
    [keys |-> IF key \in ToSet(kwargs.keys) THEN kwargs.keys ELSE Append(kwargs.keys, key),
     val |-> [k \in ToSet(kwargs.keys) \cup {key} |-> IF k = key THEN value ELSE kwargs.val[k]]]

\* hasattr(pm, dist) or dist in self.dists
KnownDists == {"Normal", "Cauchy", "Flat", "Bernoulli", "HalfCauchy", "HalfNormal", "HalfFlat"}
\* the distributions pm gives a transformed variable, and the suffix of its name
TransformSuffix(dist) ==
    IF dist \in {"HalfCauchy", "HalfNormal"} THEN "_log__"
    ELSE IF dist = "HalfFlat" THEN "_lowerbound__"
    ELSE ""
\* the keys of PyMC3BackEnd.links
links == {"identity", "logit", "inverse", "inverse_squared", "log"}

\* what _build_dist did: the exception, the variables of self.model after
\* it, and whether it returned a TransformedRV
Built(exc, variables, transformed) ==
    [exc |-> exc, variables |-> variables, transformed |-> transformed]
\* pm.Model.add_random_variable: the names of a model are unique
RECURSIVE add_variables(_, _, _)
add_variables(variables, names, transformed) ==
    IF names = <<>> THEN Built(NoExc, variables, transformed)
    ELSE IF Head(names) \in ToSet(variables) THEN Built("ValueError", variables, FALSE)
    ELSE add_variables(Append(variables, Head(names)), Tail(names), transformed)

\* dist(label, **kwargs): a free variable of a transformed distribution
\* comes with its transformed variable, an observed one does not
pm_dist(variables, label, dist, observed) ==
    IF TransformSuffix(dist) # "" /\ ~observed
    THEN add_variables(variables, <<label \o TransformSuffix(dist), label>>, TRUE)
    ELSE add_variables(variables, <<label>>, FALSE)

RECURSIVE build_dist(_, _, _, _, _)
RECURSIVE expand_args(_, _, _, _, _)
\* kwargs = {k: _expand_args(k, v, label) for (k, v) in kwargs.items()}, from
\* the i-th item on: the variables after it and the keys of the TransformedRVs
expand_args(variables, spec, label, kwargs, i) ==
    IF i > Len(kwargs.keys) THEN [exc |-> NoExc, variables |-> variables, transformed |-> {}]
    ELSE
    Let(kwargs.keys[i], LAMBDA k :
    IF kwargs.val[k].is_prior
    THEN Let(build_dist(variables, spec, label \o "_" \o k, kwargs.val[k].name,
                        kwargs.val[k].args),
             LAMBDA built :
             IF built.exc # NoExc
             THEN [exc |-> built.exc, variables |-> built.variables, transformed |-> {}]
             ELSE Let(expand_args(built.variables, spec, label, kwargs, i + 1),
                      LAMBDA rest :
                      [rest EXCEPT !.transformed =
                          rest.transformed \cup (IF built.transformed THEN {k} ELSE {})]))
    ELSE expand_args(variables, spec, label, kwargs, i + 1))

\* PyMC3BackEnd._build_dist(spec, label, dist, **kwargs)
build_dist(variables, spec, label, dist, kwargs) ==
    IF dist \notin KnownDists THEN Built("ValueError", variables, FALSE)
    ELSE
    Let(expand_args(variables, spec, label, kwargs, 1), LAMBDA expanded :
    IF expanded.exc # NoExc THEN Built(expanded.exc, expanded.variables, FALSE)
    ELSE IF /\ spec.noncentered
            /\ "sd" \in ToSet(kwargs.keys)
            /\ "observed" \notin ToSet(kwargs.keys)
            /\ "sd" \in expanded.transformed
    THEN IF "shape" \notin ToSet(kwargs.keys) THEN Built("KeyError", expanded.variables, FALSE)
         ELSE add_variables(expanded.variables, <<label \o "_offset", label>>, FALSE)
    ELSE pm_dist(expanded.variables, label, dist, "observed" \in ToSet(kwargs.keys)))

\* PyMC3BackEnd.reset() that keeps the model
reset_keeping_model(self) == [self EXCEPT !.mu = None, !.par_groups = <<>>]
\* PyMC3BackEnd.reset()
reset(self) == [self EXCEPT !.model = <<>>, !.mu = None, !.par_groups = <<>>]

\* PyMC3BackEnd.__init__()
PyMC3BackEnd_init ==
    [exists |-> TRUE, model |-> <<>>, mu |-> None, par_groups |-> <<>>, spec |-> None]

\* the loop of build over spec.terms from the i-th term on: the exception,
\* the variables of the model and the terms added to self.mu
RECURSIVE build_terms(_, _, _, _)
build_terms(variables, mu, spec, i) ==
    IF i > Len(spec.terms) THEN [exc |-> NoExc, variables |-> variables, mu |-> mu]
    ELSE
    Let(spec.terms[i], LAMBDA t :
    Let(build_dist(variables, spec, t.name, t.prior.name,
                   [keys |-> <<"shape">> \o t.prior.args.keys,
                    val |-> [k \in {"shape"} \cup ToSet(t.prior.args.keys) |->
                                IF k = "shape" /\ k \notin ToSet(t.prior.args.keys) THEN Value
                                ELSE t.prior.args.val[k]]]),
        LAMBDA coef :
        IF coef.exc # NoExc THEN [exc |-> coef.exc, variables |-> coef.variables, mu |-> mu]
        ELSE build_terms(coef.variables, Append(mu, t.name), spec, i + 1)))

\* PyMC3BackEnd.build(spec, reset): the backend and the spec after it, and
\* the exception
build(self, spec, reset_arg) ==
    Let(IF reset_arg THEN reset(self) ELSE self, LAMBDA start :
    Let(build_terms(start.model, <<>>, spec, 1), LAMBDA terms :
    IF terms.exc # NoExc
    THEN [exc |-> terms.exc, spec |-> spec,
          self |-> [start EXCEPT !.model = terms.variables, !.mu = Some(terms.mu)]]
    ELSE IF spec.family.link \notin links
    THEN [exc |-> "KeyError", spec |-> spec,
          self |-> [start EXCEPT !.model = terms.variables, !.mu = Some(terms.mu)]]
    ELSE
    Let(KwargsSet(KwargsSet(spec.family.prior.args, spec.family.parent, Value),
                  "observed", Value),
        LAMBDA y_args :
    Let(build_dist(terms.variables, spec, spec.y.name, spec.family.prior.name, y_args),
        LAMBDA y :
        [exc |-> y.exc,
         spec |-> [spec EXCEPT !.family.prior.args = y_args],
         self |-> [start EXCEPT !.model = y.variables, !.mu = Some(terms.mu),
                                !.spec = IF y.exc = NoExc THEN Some(spec.id)
                                         ELSE start.spec]]))))

\* The specs built: a model of common terms with a prior on the sd of the
\* response, a model with a group-specific term whose sd has a hyperprior
\* (non-centered or not), a model with a distribution pm does not have and a
\* model with a link the backend does not have
BackendTerm(name, dist, args) == [name |-> name, prior |-> [name |-> dist, args |-> args]]
NumberArgs == Kwargs(<<"mu", "sd">>, [k \in {"mu", "sd"} |-> Value])
HyperArgs ==
    Kwargs(<<"mu", "sd">>,
           [k \in {"mu", "sd"} |->
               IF k = "sd" THEN HyperpriorValue("HalfCauchy", Kwargs(<<"beta">>, [b \in {"beta"} |-> Value]))
               ELSE Value])
BackendFamily(dist, args, parent, link) ==
    [prior |-> [name |-> dist, args |-> args], parent |-> parent, link |-> link]
GaussianFamily ==
    BackendFamily("Normal",
                  Kwargs(<<"sd">>, [k \in {"sd"} |->
                      HyperpriorValue("HalfNormal", Kwargs(<<"sd">>, [b \in {"sd"} |-> Value]))]),
                  "mu", "identity")
BernoulliFamily(link) == BackendFamily("Bernoulli", NoKwargs, "p", link)
BackendSpec(id, terms, family, noncentered) ==
    [id |-> id, terms |-> terms, y |-> [name |-> "y"], family |-> family,
     noncentered |-> noncentered]
BackendSpecs ==
    <<BackendSpec(1, <<BackendTerm("Intercept", "Normal", NumberArgs),
                       BackendTerm("x", "Normal", NumberArgs)>>, GaussianFamily, TRUE),
      BackendSpec(2, <<BackendTerm("Intercept", "Normal", NumberArgs),
                       BackendTerm("1|g", "Normal", HyperArgs)>>, BernoulliFamily("logit"), TRUE),
      BackendSpec(3, <<BackendTerm("x", "Flat", NoKwargs),
                       BackendTerm("1|g", "Normal", HyperArgs)>>, GaussianFamily, FALSE),
      BackendSpec(4, <<BackendTerm("x", "Normal", NumberArgs),
                       BackendTerm("z", "Laplace2", NumberArgs)>>, GaussianFamily, TRUE),
      BackendSpec(5, <<BackendTerm("z", "Cauchy", NumberArgs)>>, BernoulliFamily("cloglog"), TRUE)>>

NoBackend == [exists |-> FALSE, model |-> <<>>, mu |-> None, par_groups |-> <<>>, spec |-> None]
\* the calls of build so far (the spec and reset of each), the exception of
\* the last one and the specs as the calls left them
NoBuildCall == [history |-> <<>>, exc |-> NoExc, specs |-> BackendSpecs]

\* PyMC3BackEnd()
NewBackend ==
    /\ ~backend.exists
    /\ backend' = PyMC3BackEnd_init
    /\ UNCHANGED buildCall
    /\ UNCHANGED notBackend

\* backend.build(spec, reset)
Build ==
    /\ backend.exists
    /\ Len(buildCall.history) < MaxBuilds
    /\ \E id \in DOMAIN BackendSpecs, reset_arg \in BOOLEAN :
         \E r \in {build(backend, buildCall.specs[id], reset_arg)} :
            /\ backend' = r.self
            /\ buildCall' = [history |-> Append(buildCall.history, <<id, reset_arg>>),
                             exc |-> r.exc,
                             specs |-> [buildCall.specs EXCEPT ![id] = r.spec]]
    /\ UNCHANGED notBackend


(***************************************************************************)
(* Specifications                                                          *)
(***************************************************************************)
IdleLik == lik = NoLikelihood /\ likCall = NoLikCall
IdleFam == fam = NoFamily /\ famCall = NoFamCall
IdlePrior == prior = NoPrior /\ priorCall = NoPriorCall /\ priorHist = <<>>
IdleScaler == model = NoModel /\ scaler = NoScaler /\ scaleCall = NoScaleCall
IdleComp == comp = NoComp /\ compCall = NoCompCall /\ predCall = NoPredCall
IdlePlot == dataCall = NoDataCall /\ estCall = NoEstCall /\ effCall = NoEffCall
IdleBackend == backend = NoBackend /\ buildCall = NoBuildCall

InitL ==
    IdleLik /\ IdleFam /\ IdlePrior /\ IdleScaler /\ IdleComp /\ IdlePlot /\ IdleBackend

NextL == NewLikelihood \/ SetParams \/ SetParent

\* A Likelihood is constructed, then .params and .parent are assigned.
SpecLikelihood == InitL /\ [][NextL]_vars

InitF ==
    /\ likCall \in FamilyLikelihoodCalls
    /\ lik = Likelihood_init(likCall.name, likCall.params, likCall.parent).obj
    /\ IdleFam /\ IdlePrior /\ IdleScaler /\ IdleComp /\ IdlePlot /\ IdleBackend

NextF == NewFamily \/ SetLink

\* A Family is constructed around a Likelihood, then .link is assigned.
SpecFamily == InitF /\ [][NextF]_vars

InitP ==
    IdleLik /\ IdleFam /\ IdlePrior /\ IdleScaler /\ IdleComp /\ IdlePlot /\ IdleBackend

NextP == NewPrior \/ UpdatePrior

\* A Prior is constructed, then updated any number of times.
SpecPrior == InitP /\ [][NextP]_vars

InitS ==
    /\ \E family \in ScalerFamilies, auto_scale \in BOOLEAN, y \in Columns, x \in Columns :
         \E i \in InterceptTerms, c \in SlopeTerms(x), g \in GroupTerms(x) :
            model = ScalerModel(family, auto_scale, y, i, c, g)
    /\ scaler = NoScaler
    /\ scaleCall = NoScaleCall
    /\ IdleLik /\ IdleFam /\ IdlePrior /\ IdleComp /\ IdlePlot /\ IdleBackend

NextS == NewScaler \/ Scale

\* A PriorScaler2 is made for a model with its default and user priors, and
\* scale() is called on it.
SpecScaler == InitS /\ [][NextS]_vars

InitC ==
    IdleLik /\ IdleFam /\ IdlePrior /\ IdleScaler /\ IdleComp /\ IdlePlot /\ IdleBackend

NextC == NewComponent

\* A DistributionalComponent is made of a design, the priors of the user and
\* the family of the model.
SpecComponent == InitC /\ [][NextC]_vars

InitD ==
    IdleLik /\ IdleFam /\ IdlePrior /\ IdleScaler /\ IdleComp /\ IdlePlot /\ IdleBackend

NextD == CreateCapData \/ CreateDifferencesData

\* The data of an effect is made: by create_cap_data for predictions, by
\* create_differences_data for comparisons and slopes.
SpecData == InitD /\ [][NextD]_vars

InitE ==
    IdleLik /\ IdleFam /\ IdlePrior /\ IdleScaler /\ IdleComp /\ IdlePlot /\ IdleBackend

NextE == GetEstimate

\* get_estimate is called on a PredictiveDifferences made of the data of
\* create_differences_data and the predictions for it.
SpecEstimate == InitE /\ [][NextE]_vars

InitX ==
    IdleLik /\ IdleFam /\ IdlePrior /\ IdleScaler /\ IdleComp /\ IdlePlot /\ IdleBackend

NextX == Predictions \/ Comparisons \/ Slopes

\* predictions, comparisons or slopes is called on a model and its samples.
SpecEffects == InitX /\ [][NextX]_vars

InitB ==
    IdleLik /\ IdleFam /\ IdlePrior /\ IdleScaler /\ IdleComp /\ IdlePlot /\ IdleBackend

NextB == NewBackend \/ Build

\* A backend is made and builds up to MaxBuilds specs, with or without reset.
SpecBackend == InitB /\ [][NextB]_vars

InitR ==
    IdleLik /\ IdleFam /\ IdlePrior /\ IdleScaler /\ IdleComp /\ IdlePlot /\ IdleBackend

NextR == NewPredictComponent \/ Predict

\* A component is made of its designs and predicts once.
SpecPredict == InitR /\ [][NextR]_vars

InitV ==
    IdleLik /\ IdleFam /\ IdlePrior /\ IdleScaler /\ IdleComp /\ IdlePlot /\ IdleBackend

NextV == SetDefaultContrastValues

\* The default contrast values of a variable of a model are computed.
SpecContrast == InitV /\ [][NextV]_vars

(***************************************************************************)
(* Likelihood: claims C2, C3, C4 (SpecLikelihood)                          *)
(***************************************************************************)
Known(name) == name \in DOMAIN DISTRIBUTIONS
InParams(parent, params) ==
    parent # None /\ params # None /\ Get(parent) \in ToSet(Get(params))

\* C2: for a registered name, Likelihood(name, params, parent) returns exactly
\* when params, if given, is set-equal to the registry's params and parent, if
\* given, is one of the registry's params; otherwise it raises ValueError.  On
\* success an omitted params or parent takes the registry's value and a given
\* one is stored as given.
C2_KnownConstruction ==
    (likCall.op = "init" /\ Known(likCall.name)) =>
        LET reg == DISTRIBUTIONS[likCall.name]
            paramsOk == likCall.params = None
                        \/ ToSet(Get(likCall.params)) = ToSet(reg.params)
            parentOk == likCall.parent = None
                        \/ Get(likCall.parent) \in ToSet(reg.params)
        IN  /\ (likCall.exc = NoExc) <=> (paramsOk /\ parentOk)
            /\ likCall.exc \in {NoExc, "ValueError"}
            /\ (likCall.exc # NoExc) => ~lik.exists
            /\ (likCall.exc = NoExc) =>
                 /\ lik.exists
                 /\ lik.name = likCall.name
                 /\ lik.params = (IF likCall.params = None THEN Some(reg.params)
                                  ELSE likCall.params)
                 /\ lik.parent = (IF likCall.parent = None THEN Some(reg.parent)
                                  ELSE likCall.parent)

\* C2 witness: Likelihood("Normal") returned with the registry's params and parent.
C2_Witness ==
    /\ likCall.op = "init" /\ likCall.name = "Normal" /\ likCall.exc = NoExc
    /\ likCall.params = None /\ likCall.parent = None
    /\ lik.exists /\ lik.params = Some(<<"mu", "sigma">>) /\ lik.parent = Some("mu")

\* C3 as stated: for a name that is not registered, no call raises.
C3_Original ==
    (likCall.op # "none" /\ ~Known(likCall.name)) => likCall.exc = NoExc

\* C3 as amended: for a name that is not registered params is never validated
\* (any value, None included, is stored), but parent is: the constructor and
\* the parent assignment return exactly when parent is a member of the stored
\* params; otherwise they raise ValueError (an omitted parent included), or
\* TypeError when the stored params is None.
C3_UnknownValidation ==
    (likCall.op # "none" /\ ~Known(likCall.name)) =>
        /\ (likCall.op = "init") =>
             /\ likCall.exc =
                  (IF likCall.params = None THEN "TypeError"
                   ELSE IF InParams(likCall.parent, likCall.params) THEN NoExc
                   ELSE "ValueError")
             /\ IF likCall.exc = NoExc
                THEN /\ lik.exists
                     /\ lik.params = likCall.params
                     /\ lik.parent = likCall.parent
                ELSE ~lik.exists
        /\ (likCall.op = "params") =>
             /\ likCall.exc = NoExc
             /\ lik.params = likCall.params
        /\ (likCall.op = "parent") =>
             /\ likCall.exc =
                  (IF lik.params = None THEN "TypeError"
                   ELSE IF InParams(likCall.parent, lik.params) THEN NoExc
                   ELSE "ValueError")
             /\ (likCall.exc = NoExc) => lik.parent = likCall.parent

\* C3 witness: on an unregistered likelihood, a parent that is not among the
\* stored params was assigned and rejected.
C3_Witness ==
    /\ lik.exists /\ ~Known(lik.name)
    /\ likCall.op = "parent" /\ likCall.exc = "ValueError"
    /\ likCall.parent # None /\ lik.params # None

\* C4: whatever was constructed and assigned, the stored parent is a member of
\* the stored params.
C4_ParentInParams ==
    lik.exists => InParams(lik.parent, lik.params)

(***************************************************************************)
(* Family: claims C1, C5 (SpecFamily)                                      *)
(***************************************************************************)
\* The items the last call on fam gave to the link setter.
CallItems ==
    IF famCall.kind = "single"
    THEN <<[key |-> Get(lik.parent), val |-> famCall.single]>>
    ELSE famCall.mapping

\* Whether SUPPORTED_LINKS of fam's class holds a list for the parameter.
HasSupportedList(cls, param) ==
    cls = "Family" \/ (cls \in {"Categorical", "Multinomial"} /\ param = "p")
\* Whether the name is in that list.
Listed(cls, param, name) ==
    IF cls = "Family"
    THEN name \in {"cloglog", "identity", "inverse_squared", "inverse", "log",
                   "logit", "probit", "softmax", "tan_2"}
    ELSE name = "softmax"

\* C1: a link assigned by name (alone, or in a mapping of names and Link
\* instances), for parameters SUPPORTED_LINKS has a list for, raises ValueError
\* when one of the names is not in the list of its parameter, and otherwise
\* returns with a Link of that name stored for the parameter.
C1_StringLinkChecked ==
    (/\ famCall.op \in {"init", "link"}
     /\ famCall.kind = "single" => famCall.single.t \in {"str", "Link"}
     /\ \A i \in DOMAIN CallItems :
          /\ CallItems[i].val.t \in {"str", "Link"}
          /\ CallItems[i].val.t = "str" =>
               HasSupportedList(famCall.cls, CallItems[i].key))
    => IF \E i \in DOMAIN CallItems :
            /\ CallItems[i].val.t = "str"
            /\ ~Listed(famCall.cls, CallItems[i].key, CallItems[i].val.v)
       THEN famCall.exc = "ValueError"
       ELSE /\ famCall.exc = NoExc
            /\ fam.exists /\ fam.cls = famCall.cls
            /\ DOMAIN fam.link = {CallItems[i].key : i \in DOMAIN CallItems}
            /\ \A i \in DOMAIN CallItems :
                 fam.link[CallItems[i].key] = Link(CallItems[i].val.v)

\* C1 witness: a Categorical family built with "softmax" rejected "logit" for p.
C1_Witness ==
    /\ fam.exists /\ fam.cls = "Categorical"
    /\ famCall.op = "link" /\ famCall.kind = "single"
    /\ famCall.single = Str("logit") /\ famCall.exc = "ValueError"
    /\ Get(lik.parent) = "p" /\ fam.link = ("p" :> Link("softmax"))

\* C5: every key of the stored link mapping is the likelihood's parent or one
\* of its auxiliary parameters (its params other than the parent), and a single
\* link value is stored under the parent alone.
C5_LinkKeysAreParameters ==
    fam.exists =>
        LET parent == Get(lik.parent)
            auxiliary == ToSet(Get(lik.params)) \ {parent}
        IN  /\ DOMAIN fam.link \subseteq ({parent} \cup auxiliary)
            /\ (famCall.kind = "single" /\ famCall.exc = NoExc) =>
                 DOMAIN fam.link = {parent}

(***************************************************************************)
(* Prior: claim C6 (SpecPrior)                                             *)
(***************************************************************************)
\* C6 as stated: the keys of .args are exactly the keywords passed to the
\* constructor and to the updates, and each holds the value the last call that
\* named it passed (so a keyword a call does not name keeps its value).
C6_Original ==
    prior.exists =>
        /\ DOMAIN prior.args = DOMAIN priorHist
        /\ \A key \in DOMAIN prior.args : prior.args[key] = priorHist[key]

\* C6 as amended: the same, except that a numpy array is stored squeezed (its
\* axes of length one dropped).
C6_UpdateMerges ==
    prior.exists =>
        /\ DOMAIN prior.args = DOMAIN priorHist
        /\ \A key \in DOMAIN prior.args :
             prior.args[key] = (IF priorHist[key].t = "ndarray"
                                THEN squeeze(priorHist[key])
                                ELSE priorHist[key])

\* C6 witness: after an update that named sigma and not mu, mu keeps the value
\* an earlier call gave it and sigma has the new one.
C6_Witness ==
    /\ prior.exists /\ priorCall.op = "update"
    /\ DOMAIN priorCall.kwargs = {"sigma"}
    /\ "mu" \in DOMAIN prior.args
    /\ prior.args["mu"] # prior.args["sigma"]
    /\ priorCall.kwargs["sigma"].t = "ndarray"

(***************************************************************************)
(* Prior scaler: claims C7, C8 (SpecScaler)                                *)
(***************************************************************************)
ScaleStep == scaleCall'.runs = scaleCall.runs + 1

\* C7: scale() leaves the prior (name, args, nested hyperpriors) of the
\* response and of every common and group-specific term, the intercept
\* included, as it was when that prior has auto_scale = False.
C7_OnlyAutoScaled ==
    [][ScaleStep =>
         /\ ~model.response.prior.auto_scale =>
              model'.response.prior = model.response.prior
         /\ \A i \in DOMAIN model.common_terms :
              ~model.common_terms[i].prior.auto_scale =>
                 model'.common_terms[i].prior = model.common_terms[i].prior
         /\ \A i \in DOMAIN model.group_specific_terms :
              ~model.group_specific_terms[i].prior.auto_scale =>
                 model'.group_specific_terms[i].prior = model.group_specific_terms[i].prior
       ]_vars

\* C7 witness: scale() has returned on a model whose intercept was scaled, and
\* whose slope and group-specific intercept, both with auto_scale = False,
\* have the priors they came with.
C7_Witness ==
    /\ scaleCall.runs = 1 /\ scaleCall.exc = NoExc
    /\ Len(model.common_terms) = 2 /\ Len(model.group_specific_terms) >= 1
    /\ model.common_terms[1].prior.auto_scale
    /\ model.common_terms[1].prior.name = "Normal"
    /\ model.common_terms[1].prior # NormalPrior(TRUE)
    /\ model.common_terms[2].prior = NormalPrior(FALSE)
    /\ model.group_specific_terms[1].prior = GroupPrior(FALSE, "HalfNormal")

\* C8: a scale() that is not the first one on the model changes no prior, and
\* ends as the one before it did.
C8_ScaleIdempotent ==
    [][(ScaleStep /\ scaleCall.runs >= 1) =>
         (model' = model /\ scaleCall'.exc = scaleCall.exc)]_vars

\* C8 witness: scale() has returned twice on a gaussian model whose intercept,
\* slope and group-specific intercept were all scaled.
C8_Witness ==
    /\ scaleCall.runs = 2 /\ scaleCall.exc = NoExc
    /\ model.family.name = "gaussian"
    /\ Len(model.common_terms) = 2 /\ Len(model.group_specific_terms) >= 1
    /\ model.common_terms[1].prior.auto_scale
    /\ model.common_terms[1].prior.name = "Normal"
    /\ model.common_terms[1].prior # NormalPrior(TRUE)
    /\ model.common_terms[2].prior.auto_scale
    /\ model.common_terms[2].prior.name = "Normal"
    /\ model.common_terms[2].prior # NormalPrior(TRUE)
    /\ model.group_specific_terms[1].prior.auto_scale
    /\ model.group_specific_terms[1].prior # GroupPrior(TRUE, "HalfNormal")

(***************************************************************************)
(* DistributionalComponent: claims C9, C10 (SpecComponent)                 *)
(***************************************************************************)
\* the prior the priors of the call hold for a common term
ResolvedPrior(name) ==
    IF name \in DOMAIN compCall.priors THEN compCall.priors[name]
    ELSE IF "common" \in DOMAIN compCall.priors THEN compCall.priors["common"]
    ELSE None
HasHyperprior(v) == IsPrior(v) /\ \E k \in DOMAIN v.args : v.args[k].t = "Prior"

\* C9: making a component of a design with a common term whose prior, given
\* under the name of the term or else under the key "common", has a Prior
\* among its arguments raises ValueError in add_common_terms.
C9_HyperpriorOnCommon ==
    (/\ compCall.op = "init"
     /\ compCall.design.common # None
     /\ \E i \in DOMAIN compCall.design.common.terms :
           HasHyperprior(ResolvedPrior(compCall.design.common.terms[i].name)))
    => (compCall.exc = "ValueError" /\ compCall.at = "add_common_terms")

\* C9 witness: ValueError was raised for a design whose only common term has
\* no prior under its own name and a prior with a hyperprior under "common".
C9_Witness ==
    /\ compCall.op = "init"
    /\ compCall.design.common # None
    /\ Len(compCall.design.common.terms) = 1
    /\ compCall.design.common.terms[1].name \notin DOMAIN compCall.priors
    /\ "common" \in DOMAIN compCall.priors
    /\ HasHyperprior(compCall.priors["common"])
    /\ compCall.exc = "ValueError"

ResponseRejected(response, family) ==
    LET reference == IF response.has_reference THEN response.reference ELSE None
    IN  \/ reference # None /\ family # "Bernoulli"
        \/ /\ family = "Bernoulli"
           /\ response.kind = "numeric"
           /\ \E i \in DOMAIN response.design_matrix : response.design_matrix[i] \notin {0, 1}
        \/ /\ family = "Bernoulli"
           /\ response.kind = "categoric"
           /\ response.levels = None
           /\ reference = None

\* C10: when add_response_term is called, it raises ValueError and leaves
\* response_term None in the cases (a), (b) and (c), and in every other case
\* it sets response_term and raises nothing.
C10_ResponseTerm ==
    (/\ compCall.op = "init"
     /\ compCall.design.response # None
     /\ compCall.at # "add_common_terms")
    => IF ResponseRejected(compCall.design.response, compCall.family)
       THEN /\ compCall.exc = "ValueError" /\ compCall.at = "add_response_term"
            /\ comp.response_term = None
       ELSE /\ compCall.exc = NoExc
            /\ comp.response_term # None

\* C10 witness: a Bernoulli component was refused a numeric response with a
\* value that is neither 0 nor 1 and a value that is.
C10_Witness ==
    /\ compCall.op = "init"
    /\ compCall.family = "Bernoulli"
    /\ compCall.design.response # None
    /\ compCall.design.response.kind = "numeric"
    /\ \E i, j \in DOMAIN compCall.design.response.design_matrix :
          /\ compCall.design.response.design_matrix[i] = 2
          /\ compCall.design.response.design_matrix[j] = 1
    /\ compCall.at = "add_response_term"
    /\ comp.response_term = None

(***************************************************************************)
(* Data of the effects: claims C17, C18, C19 (SpecData)                    *)
(***************************************************************************)
\* the names of the variables of the terms of the model of the call
ModelCovariates == ToSet(component_names(dataCall.model.terms))
UnitLevelCall ==
    /\ dataCall.op = "create_differences_data"
    /\ dataCall.args.conditional.t = "None"
    /\ dataCall.variable_info.name \in ModelCovariates
GridLevelCall ==
    /\ dataCall.op = "create_differences_data"
    /\ dataCall.args.conditional.t # "None"
    /\ dataCall.variable_info.name \in ModelCovariates
\* the number of candidate values of the variable, and candidate k in row r
Candidates ==
    IF dataCall.variable_info.rows # <<>> THEN Len(dataCall.variable_info.rows)
    ELSE Len(dataCall.variable_info.values)
Candidate(k, r) ==
    IF dataCall.variable_info.rows # <<>> THEN dataCall.variable_info.rows[k][r]
    ELSE dataCall.variable_info.values[k]

\* C17: without conditional covariates create_differences_data returns, for
\* each of the K candidate values of the variable, the n_obs observed rows of
\* the covariates of the model with the variable's column set to that
\* candidate, replica after replica; model.data is as it was.
C17_UnitLevelReplicas ==
    UnitLevelCall =>
        LET n == NRows(dataCall.model.data)
            name == dataCall.variable_info.name
        IN  /\ dataCall.exc = NoExc
            /\ NRows(dataCall.frame) = Candidates * n
            /\ ToSet(dataCall.frame.columns) = ModelCovariates
            /\ \A k \in 1..Candidates, r \in 1..n :
                  /\ dataCall.frame.col[name][(k - 1) * n + r] = Candidate(k, r)
                  /\ \A c \in ModelCovariates \ {name} :
                        dataCall.frame.col[c][(k - 1) * n + r] = dataCall.model.data.col[c][r]
            /\ dataCall.data = dataCall.model.data

\* C17 witness: comparisons of three given values of x, no conditional, on a
\* model with other covariates: three replicas were returned.
C17_Witness ==
    /\ UnitLevelCall
    /\ dataCall.exc = NoExc
    /\ dataCall.args.effect = "comparisons"
    /\ Candidates = 3
    /\ ModelCovariates = {"x", "g", "z"}
    /\ NRows(dataCall.frame) = 3 * NRows(dataCall.model.data)

CapCall == dataCall.op = "create_cap_data"
CapArg(kind) ==
    IF DictHas(dataCall.args.covariates, kind) THEN dataCall.args.covariates.val[kind]
    ELSE NoName
CapDistinct ==
    /\ CapArg("main") # CapArg("group")
    /\ CapArg("main") # CapArg("panel")
    /\ CapArg("group") # CapArg("panel") \/ CapArg("group") = NoName
\* the values create_cap_data makes for a covariate, in the dtype of its column
CapValues(kind) ==
    LET name == CapArg(kind)
        x == dataCall.model.data.col[name]
        dtype == dataCall.model.data.dtypes[name]
        made == IF name = NoName THEN <<NumV(0, 1)>>
                ELSE IF kind = "main" THEN make_main_values(x, dtype).obj
                ELSE make_group_values(x, dtype).obj
    IN  IF name = NoName THEN made ELSE [i \in DOMAIN made |-> astype(made[i], dtype)]

FrameValues(c) == ToSet(dataCall.frame.col[c])
RECURSIVE ProductOfSizes(_)
ProductOfSizes(columns) ==
    IF columns = <<>> THEN 1
    ELSE Cardinality(FrameValues(Head(columns))) * ProductOfSizes(Tail(columns))

\* C19: with conditional covariates create_differences_data returns the
\* Cartesian product of the value sets of the conditional covariates, of the
\* variable and of the other covariates of the model: as many rows as the
\* product of the sizes of the sets, no two of them equal.
C19_GridIsProduct ==
    GridLevelCall =>
        /\ dataCall.exc = NoExc
        /\ ModelCovariates \subseteq ToSet(dataCall.frame.columns)
        /\ NRows(dataCall.frame) = ProductOfSizes(dataCall.frame.columns)
        /\ \A r1, r2 \in 1..NRows(dataCall.frame) :
              (\A c \in ToSet(dataCall.frame.columns) :
                  dataCall.frame.col[c][r1] = dataCall.frame.col[c][r2]) => r1 = r2

(***************************************************************************)
(* The estimates of comparisons: claim C14 (SpecEstimate)                  *)
(***************************************************************************)
\* get_estimate returned for a comparison
ComparisonEstimated ==
    /\ estCall.op = "get_estimate"
    /\ estCall.exc = NoExc
    /\ estCall.self.kind = "comparisons"
\* the contrast values, one for each replica of the observed rows
ContrastValues == [k \in DOMAIN estCall.self.variable.rows |-> estCall.self.variable.rows[k][1]]
ContrastsDistinct ==
    \A i, j \in DOMAIN ContrastValues : ContrastValues[i] = ContrastValues[j] => i = j
\* the place of the pair of the values i < j of K in combination order
PairIndex(i, j, K) == ((i - 1) * (2 * K - i)) \div 2 + (j - i)
\* the prediction for observation r at contrast value k in draw d
PredictionAt(k, r, d) == estCall.posterior[(k - 1) * NRows(estCall.self.model.data) + r][d]

\* C14: for a comparison over K distinct contrast values get_estimate computes
\* K*(K-1)/2 differences, the one of the values i < j at the place of (i, j)
\* in combination order, and each is the prediction at the later value minus
\* ('diff') or divided by ('ratio') the prediction at the earlier value, for
\* every observation and draw.
C14_PairwiseDifferences ==
    (ComparisonEstimated /\ ContrastsDistinct) =>
        LET K == Len(ContrastValues)
            differences == estCall.self.differences
        IN  /\ Len(differences) = (K * (K - 1)) \div 2
            /\ \A i, j \in 1..K :
                  i < j =>
                     /\ estCall.self.pairs[PairIndex(i, j, K)] = <<i, j>>
                     /\ Len(differences[PairIndex(i, j, K)]) = NRows(estCall.self.model.data)
                     /\ \A r \in 1..NRows(estCall.self.model.data), d \in 1..Draws :
                           differences[PairIndex(i, j, K)][r][d] =
                              IF estCall.comparison_type = "diff"
                              THEN Sub(PredictionAt(j, r, d), PredictionAt(i, r, d))
                              ELSE Quot(PredictionAt(j, r, d), PredictionAt(i, r, d))

\* C14 witness: a ratio comparison of three values returned three differences,
\* the second one of the first and the third value and not equal to one.
C14_Witness ==
    /\ ComparisonEstimated
    /\ ContrastsDistinct
    /\ Len(ContrastValues) = 3
    /\ estCall.comparison_type = "ratio"
    /\ Len(estCall.self.differences) = 3
    /\ estCall.self.pairs[2] = <<1, 3>>
    /\ estCall.self.differences[2][1][1] # NumV(1, 1)

(***************************************************************************)
(* predictions, comparisons, slopes: claims C11, C12, C13, C15, C16        *)
(* (SpecEffects)                                                           *)
(***************************************************************************)
EffectCalled == effCall.op # "none"
\* prob was given and is not inside (0, 1)
ProbOutside ==
    /\ effCall.args.prob # None
    /\ effCall.args.prob[1].n <= 0 \/ effCall.args.prob[1].n >= effCall.args.prob[1].d
\* the covariates of predictions are one to three names, or a dictionary with
\* the key "main" and no key but "main", "group" and "panel"
CovariatesWellFormed ==
    LET covariates == effCall.args.covariates
    IN  IF covariates.t = "dict"
        THEN /\ "main" \in ToSet(covariates.dict.keys)
             /\ ToSet(covariates.dict.keys) \subseteq {"main", "group", "panel"}
        ELSE Len(covariates.names) >= 1
NothingComputed == ~effCall.result.data_called /\ ~effCall.result.predict_called

SeveralVariables ==
    /\ effCall.op \in {"comparisons", "slopes"}
    /\ effCall.args.variable.t \in {"list", "dict"}
    /\ Len(effCall.args.variable.names) > 1

\* C12: a contrast of comparisons or a wrt of slopes that names more than one
\* variable, as a list or as a dictionary, raises ValueError before the data
\* is made and Model.predict is called.
C12_OneVariable ==
    SeveralVariables =>
        /\ effCall.result.exc = "ValueError"
        /\ NothingComputed

\* slopes was called for wrt = g, the column of strings, with a valid prob
\* and, when wrt is a dictionary, with conditional covariates
CategoricalWrt ==
    /\ effCall.op = "slopes"
    /\ effCall.args.variable.names = <<"g">>
    /\ ~ProbOutside
    /\ effCall.args.variable.t = "dict" => effCall.args.conditional.t # "None"

\* C13: for a wrt variable of strings slopes computes comparisons and returns
\* a table without raising, with and without conditional covariates.
C13_CategoricalWrt ==
    CategoricalWrt =>
        /\ effCall.result.effect_type = "comparisons"
        /\ effCall.result.exc = NoExc
        /\ effCall.result.table # None

EffectReturned == EffectCalled /\ effCall.result.exc = NoExc

\* C15: the bound columns of the table returned are named 'lower_{100*l}%'
\* and 'upper_{100*(1-l)}%' with l = round((1-prob)/2, 4) for the prob of
\* the call.
C15_BoundNames ==
    EffectReturned =>
        LET l == round4(Times(Sub(NumV(1, 1), effCall.result.prob[1]), NumV(1, 2)))
        IN  /\ effCall.result.table.lower_bound_name = <<"lower", Times(l, NumV(100, 1)), "%">>
            /\ effCall.result.table.upper_bound_name =
                  <<"upper", Times(Sub(NumV(1, 1), l), NumV(100, 1)), "%">>

\* C16: the bounds of the table returned are the highest-density interval at
\* the prob of the call with use_hdi, and the quantiles l and 1 - l of the
\* prob of the call without, l being the bound that names the columns.
C16_BoundsAtProb ==
    EffectReturned =>
        LET prob == effCall.result.prob[1]
            l == round4(Times(Sub(NumV(1, 1), prob), NumV(1, 2)))
            bounds == effCall.result.table.bounds
        IN  \A i \in DOMAIN bounds :
               IF effCall.args.use_hdi
               THEN bounds[i].method = "hdi" /\ bounds[i].hdi_prob = Some(prob)
               ELSE bounds[i].method = "quantile" /\ bounds[i].q = <<l, Sub(NumV(1, 1), l)>>

\* The last call of build
LastBuild == buildCall.history[Len(buildCall.history)]
BuiltWithReset == buildCall.history # <<>> /\ LastBuild[2]
\* What one call of build on a new backend compiles from the spec
BuiltOnce(id) == build(PyMC3BackEnd_init, BackendSpecs[id], TRUE).self
NoDuplicates(names) == Cardinality(ToSet(names)) = Len(names)

\* C20: after any sequence of calls of build, a call with reset=True leaves in
\* the compiled model exactly the variables one call on a new backend
\* compiles from that spec: nothing of the earlier calls is left and no name
\* is there twice, and when the call returns the model holds the terms of the
\* spec and its response and the backend refers to that spec.
C20_ResetDiscardsEarlierBuilds ==
    BuiltWithReset =>
        /\ backend.model = BuiltOnce(LastBuild[1]).model
        /\ backend.mu = BuiltOnce(LastBuild[1]).mu
        /\ NoDuplicates(backend.model)
        /\ buildCall.exc = NoExc =>
              /\ backend.spec = Some(LastBuild[1])
              /\ \A i \in DOMAIN BackendSpecs[LastBuild[1]].terms :
                    BackendSpecs[LastBuild[1]].terms[i].name \in ToSet(backend.model)
              /\ BackendSpecs[LastBuild[1]].y.name \in ToSet(backend.model)

\* A spec is built, then another, then the first again with reset=True.
C20_Witness ==
    /\ Len(buildCall.history) = 3
    /\ buildCall.history[1] = <<2, TRUE>>
    /\ buildCall.history[2][1] = 1
    /\ buildCall.history[3] = <<2, TRUE>>
    /\ buildCall.exc = NoExc
    /\ backend.model = <<"Intercept", "1|g_sd_log__", "1|g_sd", "1|g_offset", "1|g", "y">>

\* The priors a spec owns: the prior of every term and the prior of the family
PriorsOf(spec) == <<[i \in DOMAIN spec.terms |-> spec.terms[i].prior], spec.family.prior>>

\* C21: build(spec) does not change the name or the args of any Prior of the
\* spec: after every call of build the prior of every term and the prior of
\* the family have the argument keys and values they had before.
C21_PriorsFrozen ==
    \A id \in DOMAIN BackendSpecs :
        PriorsOf(buildCall.specs[id]) = PriorsOf(BackendSpecs[id])

PredictCalled == predCall.op = "predict"
\* the component has neither a common nor a group-specific design
EmptyComponent == compCall.design.common = None /\ compCall.design.group = None

\* C22: predict on a component without a common and without a group-specific
\* design does not raise: the linear predictor is the constant 0 and the
\* response is its link-inverse.
C22_EmptyComponentPredicts ==
    (PredictCalled /\ EmptyComponent) =>
        /\ predCall.result.exc = NoExc
        /\ \A obs \in DOMAIN predCall.result.response :
              predCall.result.response[obs][2] = 0

\* the offsets of the common design and the columns they have in it
OffsetNames == offset_terms(comp)
OffsetColumn(name) == compCall.design.common.slices[name][2]
DesignMatrix ==
    IF predCall.in_sample THEN compCall.design.common.design_matrix
    ELSE compCall.design.common.new_design_matrix
\* the design matrix without the columns of the offsets
WithoutOffsets ==
    LET offsets == {OffsetColumn(OffsetNames[i]) : i \in DOMAIN OffsetNames}
        RECURSIVE keep(_)
        keep(j) == IF j > Len(DesignMatrix) THEN <<>>
                   ELSE (IF j \in offsets THEN <<>> ELSE <<DesignMatrix[j]>>) \o keep(j + 1)
    IN  keep(1)

\* C23: with any number of offsets in the common design, predict removes
\* exactly the columns of the offsets, so that the columns left meet the
\* stacked coefficients one to one, and adds the data of each offset once.
C23_OffsetsRemovedAndAdded ==
    (PredictCalled /\ compCall.design.common # None) =>
        /\ predCall.result.exc = NoExc
        /\ predCall.result.X = WithoutOffsets
        /\ Len(predCall.result.X) = Len(predCall.result.b)
        /\ predCall.result.x_offsets =
              [i \in DOMAIN OffsetNames |-> DesignMatrix[OffsetColumn(OffsetNames[i])]]

(***************************************************************************)
(* Prior scaler: claims C24, C25, C26, C29 (SpecScaler)                    *)
(***************************************************************************)
Scaled == scaleCall.runs >= 1
\* the auto-scaled common terms with a Normal prior: the intercepts, the others
AutoScaledNormal(type_is_intercept) ==
    {i \in DOMAIN model.common_terms :
        /\ (model.common_terms[i].type = "intercept") = type_is_intercept
        /\ model.common_terms[i].prior.auto_scale
        /\ model.common_terms[i].prior.name = "Normal"}
ResponseMean == Rat(SumSeq(model.response.data), Len(model.response.data))
ResponseStd == np_std(model.response.data)
InterceptHas(mu, sigma) ==
    \A i \in AutoScaledNormal(TRUE) :
        /\ model.common_terms[i].prior.args["mu"] = Scalar(mu)
        /\ model.common_terms[i].prior.args["sigma"] = Scalar(sigma)

\* C24: after scale() an auto-scaled intercept with a Normal prior has mu
\* equal to the mean of the response and sigma equal to 2.5 times the
\* standard deviation of the response, whatever the family of the model.
C24_InterceptAnyFamily ==
    Scaled => InterceptHas(ResponseMean, Mul(Rat(5, 2), ResponseStd))

\* C24 as amended: that holds for the gaussian family; for every other
\* family mu is 0 and sigma is 2.5.
C24_InterceptByFamily ==
    Scaled =>
        IF model.family.name = "gaussian"
        THEN InterceptHas(ResponseMean, Mul(Rat(5, 2), ResponseStd))
        ELSE InterceptHas(Whole(0), Rat(5, 2))

\* C24 witness: the intercept of a gaussian model with the response (0, 2)
\* was scaled to mu = 1, and so was the one of a model of another family to
\* mu = 0 with the response (1, 1).
C24_Witness ==
    /\ Scaled
    /\ AutoScaledNormal(TRUE) # {}
    /\ \/ /\ model.family.name = "gaussian"
          /\ ResponseMean = Whole(1) /\ ResponseStd = Whole(1)
          /\ InterceptHas(Whole(1), Rat(5, 2))
       \/ /\ model.family.name # "gaussian"
          /\ ResponseMean = Whole(1)
          /\ InterceptHas(Whole(0), Rat(5, 2))

\* the columns of the design matrix of a common term
NColumns(term) == Len(term.data)
EntriesOf(val, k) == val.shape = (IF k = 1 THEN <<>> ELSE <<k>>) /\ Len(val.data) = k

\* C25: after scale() every auto-scaled common term with a Normal prior that
\* is not the intercept has a mu and a sigma with one entry for each column
\* of its design matrix (a scalar for one column), every entry of mu 0,
\* every entry of sigma finite and above 0, constant columns included.
C25_CommonSigmaFinite ==
    Scaled =>
        \A i \in AutoScaledNormal(FALSE) :
            LET term == model.common_terms[i]
            IN  /\ EntriesOf(term.prior.args["mu"], NColumns(term))
                /\ EntriesOf(term.prior.args["sigma"], NColumns(term))
                /\ \A j \in 1..NColumns(term) :
                      /\ term.prior.args["mu"].data[j] = Zero
                      /\ IsFinite(term.prior.args["sigma"].data[j])
                      /\ term.prior.args["sigma"].data[j].sgn = 1

\* the intercept lookup of scale() finds a term: there is a common intercept
\* or no term of type intercept at all
InterceptLookupFinds ==
    \/ \E i \in DOMAIN model.common_terms : model.common_terms[i].type = "intercept"
    \/ \A i \in DOMAIN model.group_specific_terms :
          model.group_specific_terms[i].type # "intercept"
\* an auto-scaled prior that does not have the expected shape
UnexpectedCommon(p) == p.auto_scale /\ p.name # "Normal"
UnexpectedGroup(p) ==
    /\ p.auto_scale
    /\ \/ "sigma" \notin DOMAIN p.args
       \/ p.args["sigma"].t # "Prior"
       \/ p.args["sigma"].prior.name # "HalfNormal"

\* C26: scale() leaves unchanged every auto-scaled term whose prior does not
\* have the expected shape (a common term or intercept whose prior is not
\* Normal, a group-specific term whose sigma is missing, a number, or a Prior
\* that is not HalfNormal), and returns without raising.
C26_UnexpectedShapeSkipped ==
    [][(ScaleStep /\ InterceptLookupFinds) =>
         /\ \A i \in DOMAIN model.common_terms :
               UnexpectedCommon(model.common_terms[i].prior) =>
                  model'.common_terms[i] = model.common_terms[i]
         /\ \A i \in DOMAIN model.group_specific_terms :
               UnexpectedGroup(model.group_specific_terms[i].prior) =>
                  model'.group_specific_terms[i] = model.group_specific_terms[i]
         /\ ((\E i \in DOMAIN model.common_terms :
                 UnexpectedCommon(model.common_terms[i].prior))
             \/ (\E i \in DOMAIN model.group_specific_terms :
                    UnexpectedGroup(model.group_specific_terms[i].prior)))
            => scaleCall'.exc = NoExc
       ]_vars

\* C29: scale() never indexes an empty list when it looks the intercept up,
\* whatever intercepts the model has: a group-specific intercept without a
\* common intercept included.
C29_InterceptLookup ==
    Scaled => scaleCall.exc # "IndexError"

(***************************************************************************)
(* Family: claim C30 (SpecFamily)                                          *)
(***************************************************************************)
LinkAssigned == fam.exists /\ famCall'.op = "link"

\* C30: an assignment to .link that raises, whatever it raises and wherever
\* in the assigned mapping the entry that raises is, leaves the stored link
\* mapping of the family as it was.
C30_FailedAssignmentKeepsLink ==
    [][(LinkAssigned /\ famCall'.exc # NoExc) => fam'.link = fam.link]_vars

\* C30 witness: a mapping whose first entry is a supported name for a
\* parameter without a stored link and whose second entry is not a link was
\* assigned and raised.
C30_Witness ==
    /\ fam.exists /\ fam.cls = "Family"
    /\ famCall.op = "link" /\ famCall.kind = "mapping"
    /\ Len(famCall.mapping) = 2
    /\ famCall.mapping[1].val = Str("softmax")
    /\ famCall.mapping[2].val \in {Str("Empty"), Number}
    /\ famCall.exc = "ValueError"
    /\ fam.link # <<>>
    /\ famCall.mapping[1].key \notin DOMAIN fam.link

(***************************************************************************)
(* Default values: claims C27 (SpecData), C28 (SpecContrast)               *)
(***************************************************************************)
\* the levels of a column that no level is more frequent than
MostFrequent(x) ==
    LET count(v) == Cardinality({i \in DOMAIN x : x[i] = v})
    IN  {x[i] : i \in {i \in DOMAIN x : \A j \in DOMAIN x : count(x[j]) <= count(x[i])}}
Lowest(levels) == CHOOSE v \in levels : \A w \in levels : Leq(v, w)
\* g is a covariate of the model that the call holds fixed
HeldFixed(name) ==
    /\ CapCall /\ dataCall.exc = NoExc
    /\ name \in ModelCovariates
    /\ \A kind \in {"main", "group", "panel"} : CapArg(kind) # name

\* C27: the value the prediction grid gets for a categorical covariate that
\* is held fixed is the lowest, in sorted order, of its most frequent levels,
\* whatever the order of the rows of the data.
C27_ModeTieLowest ==
    HeldFixed("g") =>
        \A i \in DOMAIN dataCall.frame.col["g"] :
            dataCall.frame.col["g"][i] = Lowest(MostFrequent(dataCall.data.col["g"]))

ContrastCalled ==
    /\ dataCall.op = "set_default_contrast_values"
    /\ dataCall.exc = NoExc
    /\ dataCall.kind = "numeric"
ContrastMean == mean(dataCall.data.col[dataCall.args.contrast_predictor])

\* C28: the default contrast values of a numeric variable, of whatever
\* numeric dtype and mean, are the two distinct values mean - 0.5 and
\* mean + 0.5, one unit apart.
C28_CentredContrast ==
    ContrastCalled =>
        /\ dataCall.frame = <<Sub(ContrastMean, NumV(1, 2)), Add(ContrastMean, NumV(1, 2))>>
        /\ dataCall.frame[1] # dataCall.frame[2]
        /\ Sub(dataCall.frame[2], dataCall.frame[1]) = NumV(1, 1)

====
